---- MODULE Spec2Model ----
(***************************************************************************)
(* A model of ContribNavigator: the GitHub search client, the repository   *)
(* metadata client and the LLM layer (src/core), as state machines whose   *)
(* collaborators (GitHub, the LLM endpoint) answer nondeterministically.   *)
(*                                                                         *)
(* Text is modelled as a sequence of one-character strings, so that        *)
(* strip(), lower(), quoting and joining are computed, not assumed.  The   *)
(* fixed keywords of a search query ("label:", "topic:", ...) are single   *)
(* symbols of such a sequence.                                             *)
(***************************************************************************)
EXTENDS Integers, Sequences, FiniteSets, TLC

VARIABLES
    GITHUB_PAT,        \* utils.config_loader.GITHUB_PAT is set
    OPENAI_API_KEY,    \* utils.config_loader.OPENAI_API_KEY is set
    client,            \* llm_handler.client is an initialised client
    \* ---- fetch_beginner_issues ----
    fetch_pc,          \* "idle" (not this run) | "call" | "done"
    fetch_args,        \* the arguments of the call
    search_response,   \* what the search endpoint answers to a request
    search_requests,   \* the requests issued, in order
    fetch_result,      \* the value returned
    \* ---- get_file_url_from_repo ----
    probe_pc,          \* "idle" | "call" | "resolve" | "probe" | "done"
    probe_args,        \* the arguments of the call
    repo_details,      \* what get_repository_details returned, once asked
    branches_to_attempt,
    branch_idx,        \* position of the outer loop in branches_to_attempt
    path_idx,          \* position of the inner loop in file_paths_to_check
    probe_log,         \* the probes made, in order, each with its outcome
    probe_result,      \* the value returned
    \* ---- get_file_content ----
    content_pc,        \* "idle" | "call" | "resolve" | "request" | "done"
    content_args,      \* the arguments of the outermost call
    branch_arg,        \* the branch argument of the call now running
    current_branch,
    content_calls,     \* how many times get_file_content was entered
    content_log,       \* the requests made, in order, each with its outcome
    content_result,    \* the value returned
    \* ---- llm_handler: the four operations that call the chat-completion API ----
    llm_pc,            \* "idle" | "call" | "done"
    llm_op,            \* "rank" | "summarize" | "suggest" | "plan": the one called
    llm_input,         \* the arguments of the call
    llm_reply,         \* what the chat-completion call does if it is made
    llm_calls,         \* how many chat-completion calls were made
    llm_warned,        \* the planner printed its invalid-names warning
    llm_result,        \* the value returned
    \* ---- app.find_and_suggest_issues ----
    find_pc,           \* "idle" | "call" | "done"
    find_args,         \* the language and the topics the user gave
    find_calls,        \* the calls made to the search and to the LLM layer, in order
    find_result,       \* the tuple of outputs returned, or the exception raised
    \* ---- kit_generator.generate_kit_from_plan, app.handle_kit_generation ----
    kit_pc,            \* "idle" | "handle" | "call" | "details" | ... | "done"
    handle_args,       \* the arguments of handle_kit_generation, if it is the caller
    kit_args,          \* the arguments of generate_kit_from_plan
    kit_answers,       \* what each collaborator asked so far has answered
    kit_calls,         \* the collaborators called, in order
    kit_result,        \* the value generate_kit_from_plan returned
    handle_result,     \* the value handle_kit_generation returned
    \* ---- app.py, the page: one copy of the components for each session ----
    session,           \* for each session, the values of its components and states
    running,           \* for each session, the handlers in flight with their inputs
    clicks             \* how many clicks were made so far

cfgVars   == <<GITHUB_PAT, OPENAI_API_KEY, client>>
fetchVars == <<fetch_pc, fetch_args, search_response, search_requests, fetch_result>>
probeVars == <<probe_pc, probe_args, repo_details, branches_to_attempt, branch_idx,
               path_idx, probe_log, probe_result>>
contentVars == <<content_pc, content_args, branch_arg, current_branch, content_calls,
                 content_log, content_result>>
llmVars   == <<llm_pc, llm_op, llm_input, llm_reply, llm_calls, llm_warned, llm_result>>
kitVars   == <<kit_pc, handle_args, kit_args, kit_answers, kit_calls, kit_result,
               handle_result>>
findVars  == <<find_pc, find_args, find_calls, find_result>>
pageVars  == <<session, running, clicks>>
vars      == <<cfgVars, fetchVars, probeVars, contentVars, llmVars, findVars, kitVars,
               pageVars>>

\* what the steps of one operation leave alone
notFetchVars   == <<probeVars, contentVars, llmVars, findVars, kitVars, pageVars>>
notProbeVars   == <<fetchVars, contentVars, llmVars, findVars, kitVars, pageVars>>
notContentVars == <<fetchVars, probeVars, llmVars, findVars, kitVars, pageVars>>
notLlmVars     == <<fetchVars, probeVars, contentVars, findVars, kitVars, pageVars>>
notFindVars    == <<fetchVars, probeVars, contentVars, llmVars, kitVars, pageVars>>
notKitVars     == <<fetchVars, probeVars, contentVars, llmVars, findVars, pageVars>>
notPageVars    == <<fetchVars, probeVars, contentVars, llmVars, findVars, kitVars>>

(***************************************************************************)
(* Python values                                                           *)
(***************************************************************************)
None    == [isNone |-> TRUE]
Some(v) == [isNone |-> FALSE, v |-> v]

\* a call that raised instead of returning
Raised(e) == [isNone |-> FALSE, raised |-> e]

RECURSIVE SeqsUpTo(_, _)
\* every sequence over S of length at most n
SeqsUpTo(S, n) ==
    IF n = 0 THEN {<<>>}
    ELSE LET shorter == SeqsUpTo(S, n - 1)
         IN  shorter \cup {Append(s, x) : s \in {t \in shorter : Len(t) = n - 1}, x \in S}

Range(s) == {s[i] : i \in DOMAIN s}

(***************************************************************************)
(* str.strip(), str.lower(), str.join()                                    *)
(***************************************************************************)
IsSpace(c) == c = " "

RECURSIVE LStrip(_)
LStrip(s) == IF s /= <<>> /\ IsSpace(Head(s)) THEN LStrip(Tail(s)) ELSE s

RECURSIVE RStrip(_)
RStrip(s) ==
    IF s /= <<>> /\ IsSpace(s[Len(s)]) THEN RStrip(SubSeq(s, 1, Len(s) - 1)) ELSE s

Strip(s) == RStrip(LStrip(s))

LowerChar(c) == CASE c = "A" -> "a" [] c = "B" -> "b" [] OTHER -> c

Lower(s) == [i \in DOMAIN s |-> LowerChar(s[i])]

RECURSIVE Join(_, _)
\* sep.join(parts)
Join(sep, parts) ==
    IF parts = <<>> THEN <<>>
    ELSE IF Len(parts) = 1 THEN parts[1]
    ELSE parts[1] \o sep \o Join(sep, Tail(parts))

(***************************************************************************)
(* Bounds of the input domains                                             *)
(***************************************************************************)
MaxLabels == 3      \* longest label list drawn
MaxTopics == 2      \* longest topic list drawn
MaxItems  == 2      \* most items in one search response
MaxTime   == 2      \* timestamps are 1..MaxTime

Urls  == {"u1", "u2"}
Times == 1..MaxTime

\* label names: blank, whitespace only, plain, with surrounding whitespace,
\* with an inner space
LabelNames ==
    {<<>>, <<" ">>, <<"a">>, <<" ", "a">>, <<"a", " ", "b">>, <<"b", " ">>}

\* topic names: blank, plain, a case/whitespace variant of "a", multi-word
TopicNames ==
    {<<>>, <<"a">>, <<"A", " ">>, <<"a", " ", "b">>, <<"b">>}

(***************************************************************************)
(* github_client._make_github_request                                      *)
(***************************************************************************)
\* A decoded JSON body.  A dict is described by what the code reads of it.
JsonDict(has_items, items, other_keys) ==
    [type |-> "dict", has_items |-> has_items, items |-> items,
     other_keys |-> other_keys]
JsonList(n) == [type |-> "list", len |-> n]
JsonNull    == [type |-> "null"]

\* bool(data) for a decoded JSON body
JsonTruthy(j) ==
    CASE j.type = "dict" -> j.has_items \/ j.other_keys
      [] j.type = "list" -> j.len > 0
      [] OTHER -> FALSE

\* the outcomes of requests.get(...), raise_for_status() and response.json()
FailureKinds == {"timeout", "http_error", "request_exception", "bad_json"}

\* The data _make_github_request returns for an outcome: None without any
\* request when there is no token, None for each failure, the body otherwise.
MakeGithubRequest(pat, resp) ==
    IF ~pat THEN [sent |-> FALSE, data |-> None]
    ELSE IF resp.kind \in FailureKinds THEN [sent |-> TRUE, data |-> None]
    ELSE [sent |-> TRUE, data |-> Some(resp.body)]

(***************************************************************************)
(* github_client.fetch_beginner_issues                                     *)
(***************************************************************************)
Quote == "\""

DefaultLabels ==
    << <<"g","o","o","d"," ","f","i","r","s","t"," ","i","s","s","u","e">>,
       <<"h","e","l","p"," ","w","a","n","t","e","d">> >>

RECURSIVE LabelPartsUnstripped(_)
\* LabelParts with the name put in the clause as given, not stripped
LabelPartsUnstripped(labels) ==
    IF labels = <<>> THEN <<>>
    ELSE LET label_name == Head(labels)
             rest       == LabelPartsUnstripped(Tail(labels))
         IN  IF Strip(label_name) /= <<>>
             THEN << <<"label:", Quote>> \o label_name \o <<Quote>> >> \o rest
             ELSE rest

RECURSIVE LabelParts(_)
\* one clause per non-blank label, the stripped name always quoted
LabelParts(labels) ==
    IF labels = <<>> THEN <<>>
    ELSE LET label_name == Head(labels)
             rest       == LabelParts(Tail(labels))
         IN  IF Strip(label_name) /= <<>>
             THEN << <<"label:", Quote>> \o Strip(label_name) \o <<Quote>> >> \o rest
             ELSE rest

\* the clause of one non-blank normalised topic
TopicClause(topic_name) ==
    IF \E i \in DOMAIN topic_name : topic_name[i] = " "
    THEN <<"topic:", Quote>> \o topic_name \o <<Quote>>
    ELSE <<"topic:">> \o topic_name

RECURSIVE TopicParts(_)
\* one clause per non-blank topic, all of them in the same query
TopicParts(topics) ==
    IF topics = <<>> THEN <<>>
    ELSE LET topic_name == Lower(Strip(Head(topics)))
             rest       == TopicParts(Tail(topics))
         IN  IF topic_name /= <<>> THEN <<TopicClause(topic_name)>> \o rest ELSE rest

QueryParts(language, topics, labels) ==
    << <<"language:">> \o Lower(Strip(language)),
       <<"state:open">>, <<"is:issue">>, <<"is:public">> >>
    \o LabelParts(IF labels.isNone THEN DefaultLabels ELSE labels.v)
    \o (IF topics.isNone THEN <<>> ELSE TopicParts(topics.v))

QString(language, topics, labels) == Join(<<" ">>, QueryParts(language, topics, labels))

\* the record built from one item of the response, field by field
IssueFromItem(item) ==
    [title      |-> item.title,
     html_url   |-> item.html_url,
     updated_at |-> item.updated_at,
     created_at |-> item.created_at]

IssuesList(items) == [i \in DOMAIN items |-> IssueFromItem(items[i])]

\* The value returned for the data of the request.
FetchResult(data) ==
    IF data.isNone THEN None
    ELSE LET body == data.v
         IN  IF JsonTruthy(body) /\ body.type = "dict" /\ body.has_items
             THEN Some(IssuesList(body.items))
             ELSE IF JsonTruthy(body) /\ body.type = "dict"
             THEN Some(<<>>)
             ELSE IF JsonTruthy(body)
             THEN Raised("AttributeError")   \* data.get on a JSON list
             ELSE None

\* The whole call: the requests it issues and the value it returns.
FetchBeginnerIssues(args, pat, resp) ==
    IF args.language = <<>> THEN [requests |-> <<>>, result |-> None]
    ELSE LET q_string == QString(args.language, args.topics, args.labels)
             params   == [q |-> q_string, sort |-> args.sort, order |-> args.order,
                          per_page |-> args.per_page, page |-> args.page]
             got      == MakeGithubRequest(pat, resp)
         IN  [requests |-> IF got.sent THEN <<params>> ELSE <<>>,
              result   |-> FetchResult(got.data)]

CallFetchBeginnerIssues ==
    /\ fetch_pc = "call"
    /\ LET out == FetchBeginnerIssues(fetch_args, GITHUB_PAT, search_response)
       IN  /\ search_requests' = out.requests
           /\ fetch_result' = out.result
    /\ fetch_pc' = "done"
    /\ UNCHANGED <<cfgVars, notFetchVars, fetch_args, search_response>>

(***************************************************************************)
(* github_client.get_repository_details, get_file_url_from_repo            *)
(***************************************************************************)
MaxPaths == 2       \* longest list of candidate paths drawn

PathNames == {"CONTRIBUTING.md", ".github/CONTRIBUTING.md"}

\* bool(s) for an optional string
TruthyStr(s) == ~s.isNone /\ s.v /= ""

\* the JSON of a repository: its default_branch, when it has one
RepoJson(default_branch) == [type |-> "dict", default_branch |-> default_branch]

\* the JSON of a contents probe: the file's html_url, when it has one
FileJson(html_url) == [type |-> "dict", html_url |-> html_url]

\* the html_url GitHub shows for a file on a branch
FileUrl(branch, path) == Some([branch |-> branch, path |-> path])

\* what the repository endpoint may answer
DetailsResponses ==
    {[kind |-> "timeout"], [kind |-> "http_error", status |-> 404]}
    \cup {[kind |-> "json", body |-> RepoJson(b)] :
              b \in {None, Some(""), Some("main"), Some("dev")}}

\* get_repository_details(url) for a non-empty url
GetRepositoryDetails(pat, resp) == MakeGithubRequest(pat, resp).data

\* repo_details.get("default_branch") when repo_details is a truthy dict with one
DefaultBranchOf(details) ==
    IF ~details.isNone /\ details.v.type = "dict"
       /\ "default_branch" \in DOMAIN details.v /\ TruthyStr(details.v.default_branch)
    THEN details.v.default_branch
    ELSE None

\* BranchesToAttempt with 'main' as the only fallback
BranchesOnlyMain(branch_to_use) ==
    IF TruthyStr(branch_to_use) THEN <<branch_to_use.v>> ELSE <<"main">>

\* the branch in hand alone, or the two fallbacks when there is none
BranchesToAttempt(branch_to_use) ==
    IF TruthyStr(branch_to_use) THEN <<branch_to_use.v>> ELSE <<"main", "master">>

\* what a contents probe may answer
ProbeResponses(branch, path) ==
    {[kind |-> "http_error", status |-> 404], [kind |-> "timeout"],
     [kind |-> "json", body |-> FileJson(None)],
     [kind |-> "json", body |-> FileJson(FileUrl(branch, path))]}

\* file_metadata.get("html_url") when file_metadata is a dict with one
MetadataUrl(file_metadata) ==
    IF ~file_metadata.isNone /\ file_metadata.v.type = "dict"
       /\ "html_url" \in DOMAIN file_metadata.v
    THEN file_metadata.v.html_url
    ELSE None

\* how a probe ended, for the log
OutcomeName(pat, resp) ==
    IF ~pat THEN "no_token"
    ELSE IF resp.kind = "http_error" THEN IF resp.status = 404 THEN "http_404" ELSE "http_error"
    ELSE IF resp.kind = "json" THEN IF MetadataUrl(Some(resp.body)).isNone THEN "no_html_url" ELSE "found"
    ELSE resp.kind

NoDetails == [asked |-> FALSE]

\* lines 144-149: argument validation and the branch given by the caller
ProbeValidate ==
    /\ probe_pc = "call"
    /\ IF probe_args.repo_full_name = "" \/ probe_args.file_paths_to_check = <<>>
       THEN /\ probe_pc' = "done"
            /\ probe_result' = None
            /\ UNCHANGED branches_to_attempt
       ELSE IF TruthyStr(probe_args.default_branch)
       THEN /\ probe_pc' = "probe"
            /\ branches_to_attempt' = BranchesToAttempt(probe_args.default_branch)
            /\ UNCHANGED probe_result
       ELSE /\ probe_pc' = "resolve"
            /\ UNCHANGED <<branches_to_attempt, probe_result>>
    /\ UNCHANGED <<cfgVars, notProbeVars, probe_args, repo_details, branch_idx, path_idx,
                   probe_log>>

\* lines 150-166: ask for the repository's default branch, once
ProbeResolveBranch ==
    /\ probe_pc = "resolve"
    /\ \E resp \in DetailsResponses :
          LET details == GetRepositoryDetails(GITHUB_PAT, resp)
          IN  /\ repo_details' = [asked |-> TRUE, data |-> details]
              /\ branches_to_attempt' = BranchesToAttempt(DefaultBranchOf(details))
    /\ probe_pc' = "probe"
    /\ UNCHANGED <<cfgVars, notProbeVars, probe_args, branch_idx, path_idx, probe_log,
                   probe_result>>

\* lines 169-182: one pass of the inner loop, and the return after the last one
ProbeStep ==
    /\ probe_pc = "probe"
    /\ LET branch == branches_to_attempt[branch_idx]
           paths  == probe_args.file_paths_to_check
           path   == paths[path_idx]
       IN  \E resp \in ProbeResponses(branch, path) :
              LET file_metadata == MakeGithubRequest(GITHUB_PAT, resp).data
                  html_url      == MetadataUrl(file_metadata)
              IN  /\ probe_log' = Append(probe_log,
                                         [branch |-> branch, path |-> path,
                                          outcome |-> OutcomeName(GITHUB_PAT, resp)])
                  /\ IF ~html_url.isNone
                     THEN /\ probe_result' = html_url
                          /\ probe_pc' = "done"
                          /\ UNCHANGED <<branch_idx, path_idx>>
                     ELSE IF path_idx < Len(paths)
                     THEN /\ path_idx' = path_idx + 1
                          /\ UNCHANGED <<branch_idx, probe_pc, probe_result>>
                     ELSE IF branch_idx < Len(branches_to_attempt)
                     THEN /\ branch_idx' = branch_idx + 1
                          /\ path_idx' = 1
                          /\ UNCHANGED <<probe_pc, probe_result>>
                     ELSE /\ probe_result' = None
                          /\ probe_pc' = "done"
                          /\ UNCHANGED <<branch_idx, path_idx>>
    /\ UNCHANGED <<cfgVars, notProbeVars, probe_args, repo_details, branches_to_attempt>>

NoProbeArgs == [repo_full_name |-> "", file_paths_to_check |-> <<>>,
                default_branch |-> None]

ProbeIdle ==
    /\ probe_pc = "idle"
    /\ probe_args = NoProbeArgs
    /\ repo_details = NoDetails
    /\ branches_to_attempt = <<>>
    /\ branch_idx = 1
    /\ path_idx = 1
    /\ probe_log = <<>>
    /\ probe_result = None

NextProbe == ProbeValidate \/ ProbeResolveBranch \/ ProbeStep

(***************************************************************************)
(* github_client.get_file_content                                          *)
(***************************************************************************)
\* what the contents endpoint may answer to a raw-content request
ContentResponses ==
    {[kind |-> "ok", text |-> t] : t \in {"", "guidelines text"}}
    \cup {[kind |-> "http_error", status |-> st] : st \in {404, 500}}
    \cup {[kind |-> "timeout"], [kind |-> "request_exception"]}

ContentOutcome(resp) ==
    IF resp.kind = "http_error"
    THEN IF resp.status = 404 THEN "http_404" ELSE "http_error"
    ELSE resp.kind

\* ShouldRetryOnMaster without the test of the status code
RetryOnAnyHttpError(resp, cur, br) ==
    /\ resp.kind = "http_error"
    /\ cur = "main"
    /\ (~TruthyStr(br) \/ br.v = "main")

\* lines 236-242: a 404 on 'main', 'main' being the given or the fallback branch
ShouldRetryOnMaster(resp, cur, br) ==
    /\ resp.kind = "http_error"
    /\ resp.status = 404
    /\ cur = "main"
    /\ (~TruthyStr(br) \/ br.v = "main")

\* lines 195-200: argument validation and the branch given by the caller
ContentEnter ==
    /\ content_pc = "call"
    /\ content_calls' = content_calls + 1
    /\ IF content_args.repo_full_name = "" \/ content_args.file_path = ""
       THEN /\ content_pc' = "done"
            /\ content_result' = None
            /\ UNCHANGED current_branch
       ELSE IF TruthyStr(branch_arg)
       THEN /\ content_pc' = "request"
            /\ current_branch' = branch_arg.v
            /\ UNCHANGED content_result
       ELSE /\ content_pc' = "resolve"
            /\ UNCHANGED <<current_branch, content_result>>
    /\ UNCHANGED <<cfgVars, notContentVars, content_args, branch_arg, content_log>>

\* lines 201-214: the default branch of the repository, else 'main'
ContentResolveBranch ==
    /\ content_pc = "resolve"
    /\ \E resp \in DetailsResponses :
          LET got     == MakeGithubRequest(GITHUB_PAT, resp)
              resolved == DefaultBranchOf(got.data)
          IN  /\ current_branch' = IF resolved.isNone THEN "main" ELSE resolved.v
              /\ content_log' =
                   IF got.sent
                   THEN Append(content_log, [kind |-> "details", branch |-> "",
                                             outcome |-> OutcomeName(GITHUB_PAT, resp)])
                   ELSE content_log
    /\ content_pc' = "request"
    /\ UNCHANGED <<cfgVars, notContentVars, content_args, branch_arg, content_calls,
                   content_result>>

\* lines 216-254: the raw-content request, and the second call for 'master'
ContentRequest ==
    /\ content_pc = "request"
    /\ IF ~GITHUB_PAT
       THEN /\ content_result' = None
            /\ content_pc' = "done"
            /\ UNCHANGED <<branch_arg, content_log>>
       ELSE \E resp \in ContentResponses :
              /\ content_log' = Append(content_log,
                                       [kind |-> "content", branch |-> current_branch,
                                        outcome |-> ContentOutcome(resp)])
              /\ IF resp.kind = "ok"
                 THEN /\ content_result' = Some(resp.text)
                      /\ content_pc' = "done"
                      /\ UNCHANGED branch_arg
                 ELSE IF ShouldRetryOnMaster(resp, current_branch, branch_arg)
                 THEN /\ branch_arg' = Some("master")
                      /\ content_pc' = "call"
                      /\ UNCHANGED content_result
                 ELSE /\ content_result' = None
                      /\ content_pc' = "done"
                      /\ UNCHANGED branch_arg
    /\ UNCHANGED <<cfgVars, notContentVars, content_args, current_branch,
                   content_calls>>

NoContentArgs == [repo_full_name |-> "", file_path |-> "", branch |-> None]

ContentIdle ==
    /\ content_pc = "idle"
    /\ content_args = NoContentArgs
    /\ branch_arg = None
    /\ current_branch = ""
    /\ content_calls = 0
    /\ content_log = <<>>
    /\ content_result = None

NextContent == ContentEnter \/ ContentResolveBranch \/ ContentRequest

(***************************************************************************)
(* llm_handler, lines 8-20: the client exists only if the key is set, and  *)
(* not even then if its construction failed.                               *)
(***************************************************************************)
LlmConfig ==
    /\ OPENAI_API_KEY \in BOOLEAN
    /\ client \in {c \in BOOLEAN : c => OPENAI_API_KEY}

(***************************************************************************)
(* The chat-completion call, client.chat.completions.create, as the four   *)
(* operations of llm_handler see it: it returns a completion, whose        *)
(* message.content is a text or None, or it raises.  An exception is       *)
(* described by its class, as the except clauses test it, and by the text  *)
(* a message interpolates from it (str(e), or e.status_code).              *)
(***************************************************************************)
ErrorTypes == {"APIConnectionError", "RateLimitError", "AuthenticationError",
               "APIStatusError", "Exception"}
ErrorTexts == {"e1", "e2"}
LlmErrors  == [type : ErrorTypes, text : ErrorTexts]

RaiseReplies == {[kind |-> "raise", e |-> e] : e \in LlmErrors}

\* message.content of a completion: None, empty, blank, or a text with a space around
Contents == {None, Some(<<>>), Some(<<" ">>), Some(<<"s", " ">>)}

OkReplies == {[kind |-> "ok", content |-> c] : c \in Contents}

\* a returned string that is one of the function's own fixed messages
Message(text) == [kind |-> "message", text |-> text]

\* a returned message that interpolates the exception
ErrMessage(text, e) == [kind |-> "message", text |-> text, e |-> e.text]

\* a returned string that is the model's text, stripped
LlmText(content) == [kind |-> "llm_text", text |-> Strip(content)]

\* None.strip()
NoneHasNoStrip == [type |-> "Exception", text |-> "'NoneType' object has no attribute 'strip'"]

(***************************************************************************)
(* llm_handler.get_simple_issue_suggestion                                 *)
(***************************************************************************)
MaxIssues == 3      \* most issues handed to the LLM (app.py:130)

\* lines 94-109: one except clause for each class, the first that matches
SuggestionFailed(e) ==
    CASE e.type = "APIConnectionError" ->
           ErrMessage("LLM suggestion failed due to connection error: {e}", e)
      [] e.type = "RateLimitError" ->
           ErrMessage("LLM suggestion failed due to rate limit: {e}. Check your OpenAI plan and usage.", e)
      [] e.type = "AuthenticationError" ->
           ErrMessage("LLM suggestion failed due to authentication error: {e}.", e)
      [] e.type = "APIStatusError" ->
           ErrMessage("LLM suggestion failed due to API status error: {e.status_code}", e)
      [] OTHER ->
           ErrMessage("LLM suggestion failed with an unexpected error: {e}", e)

\* The whole call: the LLM calls it makes and the value it returns.
GetSimpleIssueSuggestion(cl, issues_data, reply) ==
    IF ~cl
    THEN [calls |-> 0,
          result |-> Message("LLM client (OpenAI) not initialized. Check API Key configuration.")]
    ELSE IF issues_data = 0
    THEN [calls |-> 0, result |-> Message("No issues provided to LLM for suggestion.")]
    ELSE [calls |-> 1,
          result |-> IF reply.kind = "raise" THEN SuggestionFailed(reply.e)
                     ELSE IF reply.content.isNone THEN SuggestionFailed(NoneHasNoStrip)
                     ELSE LlmText(reply.content.v)]

CallGetSimpleIssueSuggestion ==
    /\ llm_pc = "call"
    /\ llm_op = "rank"
    /\ LET out == GetSimpleIssueSuggestion(client, llm_input.issues_data, llm_reply)
       IN  /\ llm_calls' = llm_calls + out.calls
           /\ llm_result' = Some(out.result)
    /\ llm_pc' = "done"
    /\ UNCHANGED <<cfgVars, notLlmVars, llm_op, llm_input, llm_reply, llm_warned>>

(***************************************************************************)
(* llm_handler.summarize_text_content                                      *)
(*                                                                         *)
(* A document is described by what the function measures of it: the number *)
(* of whitespace-separated words, len(text.split()), and its length in     *)
(* characters, len(text).  A document without words is empty or blank.     *)
(***************************************************************************)
ShortDocWords == 75     \* fewer words than this: no LLM call
BriefChars    == 500    \* longer than this: the short document is cut
MaxWords      == 76     \* most words of a document drawn

\* the fewest characters a document of w words has
MinChars(w) == IF w = 0 THEN 0 ELSE 2 * w - 1

\* the documents drawn: of every word count, the shortest one, and ones around
\* the length at which a short document is cut
RealDocuments ==
    UNION {{[words |-> w, chars |-> c] :
               c \in {k \in {MinChars(w), 1, BriefChars, BriefChars + 1} :
                         k >= MinChars(w)}} :
           w \in 0..MaxWords}

Verbatim(doc)  == [kind |-> "verbatim", chars |-> doc.chars]
Brief(doc)     == [kind |-> "brief", chars |-> BriefChars]

SummarizeReplies == OkReplies \cup RaiseReplies

SummarizeFailed ==
    Message("Could not summarize the contribution guidelines: LLM API error.")

\* The whole call: the LLM calls it makes and the value it returns.
SummarizeTextContent(cl, text_content, reply) ==
    IF ~cl
    THEN [calls |-> 0, result |-> Message("LLM Client not initialized. Cannot summarize.")]
    ELSE IF text_content.words = 0
    THEN [calls |-> 0, result |-> Message("No content provided for summarization.")]
    ELSE IF text_content.words < ShortDocWords
    THEN [calls |-> 0,
          result |-> IF text_content.chars > BriefChars
                     THEN Brief(text_content) ELSE Verbatim(text_content)]
    ELSE [calls |-> 1,
          result |-> IF reply.kind = "raise" \/ reply.content.isNone THEN SummarizeFailed
                     ELSE LlmText(reply.content.v)]

CallSummarizeTextContent ==
    /\ llm_pc = "call"
    /\ llm_op = "summarize"
    /\ LET out == SummarizeTextContent(client, llm_input, llm_reply)
       IN  /\ llm_calls' = llm_calls + out.calls
           /\ llm_result' = Some(out.result)
    /\ llm_pc' = "done"
    /\ UNCHANGED <<cfgVars, notLlmVars, llm_op, llm_input, llm_reply, llm_warned>>

(***************************************************************************)
(* llm_handler.suggest_relevant_code_locations                             *)
(***************************************************************************)
MaxFiles == 2       \* most files of a listing drawn

Snippets == {<<>>, <<" ">>, <<"s">>}

SuggestReplies == OkReplies \cup RaiseReplies

LocationsFailed == Message("Could not suggest code locations: LLM API error.")

\* The whole call: the LLM calls it makes and the value it returns.  file_list
\* is described by its length.
SuggestRelevantCodeLocations(cl, issue_snippet, file_list, reply) ==
    IF ~cl
    THEN [calls |-> 0, result |-> Message("LLM Client not initialized. Cannot suggest locations.")]
    ELSE IF Strip(issue_snippet) = <<>>
    THEN [calls |-> 0, result |-> Message("No issue description provided to suggest locations.")]
    ELSE IF file_list = 0
    THEN [calls |-> 0, result |-> Message("No file list provided to suggest locations from.")]
    ELSE [calls |-> 1,
          result |-> IF reply.kind = "raise" \/ reply.content.isNone THEN LocationsFailed
                     ELSE LlmText(reply.content.v)]

CallSuggestRelevantCodeLocations ==
    /\ llm_pc = "call"
    /\ llm_op = "suggest"
    /\ LET out == SuggestRelevantCodeLocations(client, llm_input.issue_snippet,
                                               llm_input.file_list, llm_reply)
       IN  /\ llm_calls' = llm_calls + out.calls
           /\ llm_result' = Some(out.result)
    /\ llm_pc' = "done"
    /\ UNCHANGED <<cfgVars, notLlmVars, llm_op, llm_input, llm_reply, llm_warned>>

(***************************************************************************)
(* llm_handler.plan_onboarding_kit_components                              *)
(*                                                                         *)
(* The text of an 'error' or 'details' entry is a sequence of its pieces:  *)
(* the fixed part and what is interpolated into it.                        *)
(***************************************************************************)
MaxPlanLen == 3     \* longest include_components list the LLM answers

available_components ==
    <<"repo_details_and_clone_command", "contribution_guidelines_link",
      "contribution_guidelines_summary_ai", "repository_structure_modal_ai">>

\* the entries an answer may list: the four known ones and an unknown one
ReplyComponents == Range(available_components) \cup {"bogus_component"}

\* A parsed answer.  include_components is absent (None), not a list, or a list.
PlanJson(include_components) ==
    [type |-> "dict", include_components |-> include_components]
NotAList   == Some([is_list |-> FALSE])
AList(l)   == Some([is_list |-> TRUE, v |-> l])
JsonNumber == [type |-> "number"]

\* what the chat-completion call of the planner may do
PlanReplies ==
    RaiseReplies \cup {[kind |-> "not_json"]}
    \cup {[kind |-> "json", body |-> PlanJson(ic)] :
              ic \in {None, NotAList}
                     \cup {AList(l) : l \in SeqsUpTo(ReplyComponents, MaxPlanLen)}}
    \cup {[kind |-> "json", body |-> b] : b \in {JsonList(0), JsonNull, JsonNumber}}

IsKnownComponent(comp) == comp \in Range(available_components)

\* ValidComponents without the test against available_components
AllComponents(include_components) == include_components

\* line 301: the entries that are known components, in the order returned
ValidComponents(include_components) == SelectSeq(include_components, IsKnownComponent)

ErrorDetails(error, details) == [error |-> error, details |-> details]
ErrorOnly(error)             == [error |-> error]

\* line 317: f"LLM API call failed: {str(e)}"
PlanCallFailed(e) == <<"LLM API call failed: ", e.text>>

\* what the 'in' test of line 299 raises on a JSON null or number
NotIterable == [type |-> "Exception", text |-> "argument of type is not iterable"]

\* lines 298-317: what becomes of the answer, once the call was made
PlanFromReply(reply) ==
    IF reply.kind = "raise"
    THEN [warned |-> FALSE, result |-> Some(ErrorOnly(PlanCallFailed(reply.e)))]
    ELSE IF reply.kind = "not_json"
    THEN [warned |-> FALSE,
          result |-> Some([error |-> <<"JSON decode error">>, details |-> <<"json_e">>,
                           raw_response |-> <<"raw_response_content">>])]
    ELSE IF reply.body.type \in {"null", "number"}
    THEN \* '"include_components" in parsed_plan' raises TypeError
         [warned |-> FALSE, result |-> Some(ErrorOnly(PlanCallFailed(NotIterable)))]
    ELSE IF reply.body.type = "dict" /\ ~reply.body.include_components.isNone
            /\ reply.body.include_components.v.is_list
    THEN LET given == reply.body.include_components.v.v
             valid_components == ValidComponents(given)
         IN  [warned |-> Len(valid_components) /= Len(given),
              result |-> Some([include_components |-> valid_components])]
    ELSE [warned |-> FALSE,
          result |-> Some(ErrorDetails(<<"LLM response format error">>,
                                       <<"Missing 'include_components' list.">>))]

\* The whole call: the LLM calls it makes, the warning, the value it returns.
PlanOnboardingKitComponents(cl, issue_data, reply) ==
    IF ~cl \/ ~issue_data.present
    THEN [calls |-> 0, warned |-> FALSE, result |-> None]
    ELSE LET out == PlanFromReply(reply)
         IN  [calls |-> 1, warned |-> out.warned, result |-> out.result]

CallPlanOnboardingKitComponents ==
    /\ llm_pc = "call"
    /\ llm_op = "plan"
    /\ LET out == PlanOnboardingKitComponents(client, llm_input, llm_reply)
       IN  /\ llm_calls' = llm_calls + out.calls
           /\ llm_warned' = out.warned
           /\ llm_result' = out.result
    /\ llm_pc' = "done"
    /\ UNCHANGED <<cfgVars, notLlmVars, llm_op, llm_input, llm_reply>>

LlmIdle ==
    /\ llm_pc = "idle"
    /\ llm_op = "plan"
    /\ llm_input = [present |-> FALSE]
    /\ llm_reply = [kind |-> "not_json"]
    /\ llm_calls = 0
    /\ llm_warned = FALSE
    /\ llm_result = None

NextSummarize == CallSummarizeTextContent
NextPlan      == CallPlanOnboardingKitComponents

(***************************************************************************)
(* core/kit_generator.py                                                   *)
(*                                                                         *)
(* A URL or a path is the sequence of its pieces, so that split('/'),      *)
(* startswith() and the substring test of line 88 are computed.  A kit is  *)
(* the sequence of its parts, each a record of what the part shows.        *)
(***************************************************************************)
MaxFilesToDisplay == 15

Titles == {"T1", "T2"}

\* repository_html_url split at '/': a GitHub repository, one with too few
\* parts, the '#' placeholder, the empty string
GithubRepoUrl == <<"https:", "", "github.com", "o", "r">>
RepoHtmlUrls  == {GithubRepoUrl, <<"https:", "", "github.com", "o">>, <<"#">>, <<"">>}

NoIssue == [present |-> FALSE]

\* the issue records a kit is asked for; {} is the record that is not present
IssueData ==
    {NoIssue}
    \cup [present : {TRUE}, title : Titles, repository_html_url : RepoHtmlUrls,
          body_snippet : Snippets]

\* lines 13-16: owner/name, when the URL is a GitHub one with both
RepoFullNameOf(repo_html_url) ==
    IF Len(repo_html_url) >= 5
       /\ SubSeq(repo_html_url, 1, 3) = <<"https:", "", "github.com">>
    THEN Some(<<repo_html_url[4], repo_html_url[5]>>)
    ELSE None

\* bool(repo_html_url) and repo_html_url != "#"
HasRepoUrl(repo_html_url) == repo_html_url /= <<"">> /\ repo_html_url /= <<"#">>

\* what the collaborators answered in this generation; None: not asked
NoAnswers ==
    [plan_reply |-> None, details |-> None, found |-> None, content |-> None,
     summary_reply |-> None, modal |-> None, suggest_reply |-> None]

\* lines 7-33: _get_common_repo_info
GetCommonRepoInfo(issue_data, answers) ==
    LET repo_full_name == RepoFullNameOf(issue_data.repository_html_url)
        branch_from_api ==
            IF repo_full_name.isNone \/ answers.details.isNone THEN None
            ELSE DefaultBranchOf(answers.details.v)
    IN  [repo_full_name      |-> repo_full_name,
         branch_from_api     |-> branch_from_api,
         default_branch_name |-> IF branch_from_api.isNone THEN "main (assumed)"
                                 ELSE branch_from_api.v]

\* lines 37-65: _generate_repo_details_section
GenerateRepoDetailsSection(issue_data, default_branch_name) ==
    [section             |-> "repo_details",
     issue_title         |-> issue_data.title,
     repo_html_url       |-> issue_data.repository_html_url,
     default_branch_name |-> default_branch_name]

\* ---- the contribution guidelines section ----
contributing_paths_to_check ==
    << <<"CONTRIBUTING", ".md">>, <<".github/", "CONTRIBUTING", ".md">>,
       <<"docs/", "CONTRIBUTING", ".md">>, <<"CONTRIBUTING", ".rst">>,
       <<".github/", "CONTRIBUTING", ".rst">>, <<"CONTRIBUTING">> >>

\* str.lower() of a piece: only this one has upper-case letters
LowerPiece(p) == IF p = "CONTRIBUTING" THEN "contributing" ELSE p

LowerPieces(s) == [i \in DOMAIN s |-> LowerPiece(s[i])]

\* 'p in s' for strings
IsSubstring(p, s) ==
    \E i \in 0..(Len(s) - Len(p)) : SubSeq(s, i + 1, i + Len(p)) = p

\* the html_url GitHub shows for a file of the repository
BlobUrl(branch, path) == <<"https://github.com/o/r/blob/", branch, "/">> \o path

\* lines 86-90: the first candidate path that occurs in the URL found
PathThatWorked(found_contrib_display_url) ==
    LET hits == {i \in DOMAIN contributing_paths_to_check :
                    IsSubstring(LowerPieces(contributing_paths_to_check[i]),
                                LowerPieces(found_contrib_display_url))}
    IN  IF hits = {} THEN None
        ELSE Some(contributing_paths_to_check[CHOOSE i \in hits : \A j \in hits : i <= j])

\* the documents get_file_content may return: empty, blank, one word, short but
\* longer than the cut, long enough for the LLM
KitDocuments ==
    {[words |-> 0, chars |-> 0], [words |-> 0, chars |-> 1], [words |-> 1, chars |-> 1],
     [words |-> ShortDocWords - 1, chars |-> BriefChars + 1],
     [words |-> ShortDocWords, chars |-> MinChars(ShortDocWords)]}

\* bool(text) for a document
TruthyDoc(doc) == doc.chars > 0

\* the phrases of lines 98 and 142 that a returned string contains
ErrorPhrasesIn(result) ==
    IF result.kind /= "message" THEN {}
    ELSE CASE result.text = "LLM Client not initialized. Cannot summarize." ->
                {"LLM Client not initialized"}
           [] result.text = "LLM Client not initialized. Cannot suggest locations." ->
                {"LLM Client not initialized"}
           [] result.text = "No content provided for summarization." ->
                {"No content provided"}
           [] result.text = SummarizeFailed.text -> {"LLM API error"}
           [] result.text = LocationsFailed.text -> {"LLM API error"}
           [] OTHER -> {}

\* bool(s) for a string returned by the LLM layer
TruthyResult(result) == result.kind = "llm_text" => result.text /= <<>>

NoSummary == [kind |-> "none"]
KeyTakeaways(summary) == [kind |-> "key_takeaways", summary |-> summary]
SummaryStatus(text)   == [kind |-> "status", text |-> text]

\* lines 92-106: what follows the link, once the link was found
SummaryMarkdown(found_url, answers, cl) ==
    IF PathThatWorked(found_url).isNone
    THEN SummaryStatus("_Could not determine specific path of contribution file for AI summary, but a link was found._")
    ELSE IF answers.content.isNone \/ answers.content.v.isNone
            \/ ~TruthyDoc(answers.content.v.v)
    THEN SummaryStatus("_Could not fetch content of contribution guidelines for AI summary._")
    ELSE LET summary == SummarizeTextContent(cl, answers.content.v.v,
                                             answers.summary_reply.v).result
         IN  IF TruthyResult(summary)
                /\ ErrorPhrasesIn(summary) \cap
                     {"LLM Client not initialized", "LLM API error", "No content provided"} = {}
             THEN KeyTakeaways(summary)
             ELSE SummaryStatus("_AI summary for contribution guidelines could not be generated at this time._")

\* lines 67-108: _generate_contribution_guidelines_section
GenerateContributionGuidelinesSection(repo_full_name, answers, cl) ==
    IF repo_full_name.isNone \/ answers.found.isNone \/ answers.found.v.isNone
    THEN [section |-> "guidelines", link |-> None, summary |-> NoSummary]
    ELSE [section |-> "guidelines", link |-> answers.found.v,
          summary |-> SummaryMarkdown(answers.found.v.v, answers, cl)]

\* lines 214-216: the section cut at the 'Key Takeaways' heading, if it has one
StripKeyTakeaways(section) ==
    IF section.summary.kind = "key_takeaways"
    THEN [section EXCEPT !.summary = NoSummary]
    ELSE section

\* ---- the repository structure section ----
\* what clone_and_list_files_on_modal.remote does: it returns its result, a
\* success with a number of files or an error with a message, or the call raises
ModalOutcomes ==
    {[kind |-> "returned", result |-> [status |-> "success", files |-> n]] :
          n \in {0, 1, MaxFilesToDisplay, MaxFilesToDisplay + 1}}
    \cup {[kind |-> "returned",
           result |-> [status |-> "error", message |-> <<"X">>]],
          [kind |-> "raised", e |-> "e1"]}

\* modal_processor.get_repo_file_listing_via_modal for a non-empty URL
GetRepoFileListingViaModal(outcome) ==
    IF outcome.kind = "raised"
    THEN [status |-> "error",
          message |-> <<"Failed to invoke Modal function: ", outcome.e>>]
    ELSE outcome.result

NoSuggestions == [kind |-> "none"]

\* lines 137-145: the suggestions shown under a listing
SuggestedFilesText(issue_data, language_searched, files_from_modal, answers, cl) ==
    LET ai_suggestions ==
            SuggestRelevantCodeLocations(cl, issue_data.body_snippet, files_from_modal,
                                         answers.suggest_reply.v).result
    IN  IF TruthyResult(ai_suggestions)
           /\ ErrorPhrasesIn(ai_suggestions) \cap
                {"LLM Client not initialized", "LLM API error"} = {}
        THEN [kind |-> "ai_suggested", suggestions |-> ai_suggestions]
        ELSE [kind |-> "status",
              text |-> "_AI could not suggest specific files to start with for this issue at this time._"]

\* GenerateModalRepoStructureSection with one fixed text for every failure
StructureWithFixedPlaceholder(issue_data, language_searched, answers, cl) ==
    IF HasRepoUrl(issue_data.repository_html_url)
       /\ answers.modal.v.status = "success" /\ answers.modal.v.files > 0
    THEN [section |-> "structure",
          listing |-> [kind |-> "files", shown |-> 1, more |-> 0],
          suggestions |->
              SuggestedFilesText(issue_data, language_searched, answers.modal.v.files,
                                 answers, cl)]
    ELSE [section |-> "structure",
          listing |-> [kind |-> "placeholder",
                       text |-> <<"_Could not retrieve repository file listing at this time._">>],
          suggestions |-> NoSuggestions]

\* lines 110-153: _generate_modal_repo_structure_section
GenerateModalRepoStructureSection(issue_data, language_searched, answers, cl) ==
    IF ~HasRepoUrl(issue_data.repository_html_url)
    THEN [section |-> "structure",
          listing |-> [kind |-> "placeholder",
                       text |-> <<"_Repository URL not available to fetch file listing._">>],
          suggestions |-> NoSuggestions]
    ELSE LET modal_response == answers.modal.v
         IN  IF modal_response.status = "success" /\ modal_response.files > 0
             THEN [section |-> "structure",
                   listing |->
                       [kind  |-> "files",
                        shown |-> IF modal_response.files > MaxFilesToDisplay
                                  THEN MaxFilesToDisplay ELSE modal_response.files,
                        more  |-> IF modal_response.files > MaxFilesToDisplay
                                  THEN modal_response.files - MaxFilesToDisplay ELSE 0],
                   suggestions |->
                       SuggestedFilesText(issue_data, language_searched,
                                          modal_response.files, answers, cl)]
             ELSE IF modal_response.status = "success"
             THEN [section |-> "structure",
                   listing |-> [kind |-> "placeholder",
                                text |-> <<"_Repository cloned successfully via Modal, but no files were found at the top level._">>],
                   suggestions |-> NoSuggestions]
             ELSE [section |-> "structure",
                   listing |-> [kind |-> "placeholder",
                                text |-> <<"_Could not retrieve repository file listing via Modal: ">>
                                         \o modal_response.message \o <<"_">>],
                   suggestions |-> NoSuggestions]

\* ---- generate_kit_from_plan ----
KitError(text) == [kind |-> "error", text |-> text]

Includes(components_to_include, component) ==
    \E i \in DOMAIN components_to_include : components_to_include[i] = component

\* the sections in the order the plan lists them, one for each entry
SectionsInPlanOrder(issue_data, language_searched, components_to_include, answers, cl) ==
    LET info == GetCommonRepoInfo(issue_data, answers)
        SectionOf(component) ==
            CASE component = "repo_details_and_clone_command" ->
                   <<GenerateRepoDetailsSection(issue_data, info.default_branch_name)>>
              [] component \in {"contribution_guidelines_link",
                                "contribution_guidelines_summary_ai"} ->
                   <<GenerateContributionGuidelinesSection(info.repo_full_name, answers, cl)>>
              [] component = "repository_structure_modal_ai" ->
                   <<GenerateModalRepoStructureSection(issue_data, language_searched,
                                                       answers, cl)>>
              [] OTHER -> <<>>
        RECURSIVE Walk(_)
        Walk(l) == IF l = <<>> THEN <<>> ELSE SectionOf(Head(l)) \o Walk(Tail(l))
    IN  Walk(components_to_include)

\* KitSections with the guidelines section whatever the plan says
SectionsWithGuidelines(issue_data, language_searched, components_to_include, answers, cl) ==
    LET info == GetCommonRepoInfo(issue_data, answers)
    IN  (IF Includes(components_to_include, "repo_details_and_clone_command")
         THEN <<GenerateRepoDetailsSection(issue_data, info.default_branch_name)>>
         ELSE <<>>)
        \o <<GenerateContributionGuidelinesSection(info.repo_full_name, answers, cl)>>

\* lines 186-223: the sections between the header and the closing remark
KitSections(issue_data, language_searched, components_to_include, answers, cl) ==
    LET info == GetCommonRepoInfo(issue_data, answers)
        generate_guidelines_link ==
            Includes(components_to_include, "contribution_guidelines_link")
        generate_guidelines_summary ==
            Includes(components_to_include, "contribution_guidelines_summary_ai")
        guidelines_section_md ==
            GenerateContributionGuidelinesSection(info.repo_full_name, answers, cl)
    IN  (IF Includes(components_to_include, "repo_details_and_clone_command")
         THEN <<GenerateRepoDetailsSection(issue_data, info.default_branch_name)>>
         ELSE <<>>)
        \o (IF generate_guidelines_link \/ generate_guidelines_summary
            THEN <<IF generate_guidelines_link /\ ~generate_guidelines_summary
                   THEN StripKeyTakeaways(guidelines_section_md)
                   ELSE guidelines_section_md>>
            ELSE <<>>)
        \o (IF Includes(components_to_include, "repository_structure_modal_ai")
            THEN <<GenerateModalRepoStructureSection(issue_data, language_searched,
                                                     answers, cl)>>
            ELSE <<>>)

\* lines 157-228: the value generate_kit_from_plan returns, given the answers
GenerateKitFromPlan(issue_data, language_searched, components_to_include, answers, cl) ==
    IF ~issue_data.present
    THEN KitError("Error: No issue data provided to generate kit.")
    ELSE IF components_to_include = <<>>
    THEN KitError("Error: No components specified for kit generation plan.")
    ELSE [kind  |-> "kit",
          parts |-> <<[section |-> "header", issue_title |-> issue_data.title]>>
                    \o KitSections(issue_data, language_searched, components_to_include,
                                   answers, cl)
                    \o <<[section |-> "footer"]>>]

\* ---- the steps of one kit generation, each asking one collaborator ----
MaxKitPlan == 2     \* longest plan drawn from every combination of components

\* what the collaborators of a kit generation may answer
KitDetailsResponses ==
    {[kind |-> "timeout"], [kind |-> "json", body |-> RepoJson(None)],
     [kind |-> "json", body |-> RepoJson(Some("dev"))]}

\* get_file_url_from_repo: nothing found, or the html_url of a candidate path on
\* the first branch it attempts, or of the first candidate on a later branch, or
\* an html_url in which no candidate path occurs
KitFoundUrls(branches) ==
    {None, Some(BlobUrl(branches[1], <<"GUIDE", ".md">>))}
    \cup {Some(BlobUrl(branches[1], contributing_paths_to_check[p])) :
              p \in DOMAIN contributing_paths_to_check}
    \cup {Some(BlobUrl(branches[b], contributing_paths_to_check[1])) :
              b \in DOMAIN branches}

\* what the repository endpoint answers when it is asked again: it fails again,
\* or it now names the branch
KitDetailsAgain ==
    {[kind |-> "timeout"], [kind |-> "json", body |-> RepoJson(Some("dev"))]}

\* a get_repository_details made inside another client function, for the log
DetailsAskedBy(caller, resp) ==
    [call |-> "get_repository_details", by |-> caller,
     outcome |-> OutcomeName(GITHUB_PAT, resp)]

KitLlmReplies == OkReplies \cup {[kind |-> "raise", e |-> [type |-> "Exception", text |-> "e1"]]}

KitWants(component) == Includes(kit_args.components_to_include, component)

KitInfo == GetCommonRepoInfo(kit_args.issue_data, kit_answers)

Called(name) == [call |-> name]

\* lines 166-171: the two argument checks
KitEnter ==
    /\ kit_pc = "call"
    /\ IF ~kit_args.issue_data.present \/ kit_args.components_to_include = <<>>
       THEN kit_pc' = "return"
       ELSE kit_pc' = "details"
    /\ UNCHANGED <<cfgVars, notKitVars, handle_args, kit_args, kit_answers, kit_calls,
                   kit_result, handle_result>>

\* line 174: _get_common_repo_info asks for the repository, if it has a name
KitDetails ==
    /\ kit_pc = "details"
    /\ IF RepoFullNameOf(kit_args.issue_data.repository_html_url).isNone
       THEN UNCHANGED <<kit_answers, kit_calls>>
       ELSE \E resp \in KitDetailsResponses :
               /\ kit_answers' = [kit_answers EXCEPT
                                    !.details = Some(GetRepositoryDetails(GITHUB_PAT, resp))]
               /\ kit_calls' = Append(kit_calls,
                                      DetailsAskedBy("_get_common_repo_info", resp))
    /\ kit_pc' = "probe"
    /\ UNCHANGED <<cfgVars, notKitVars, handle_args, kit_args, kit_result, handle_result>>

\* line 81: the guidelines section looks for the link; get_file_url_from_repo
\* (github_client.py 148-166) asks for the repository again when it is given no
\* branch, and attempts 'main' and 'master' when it still has none
KitProbe ==
    /\ kit_pc = "probe"
    /\ IF (KitWants("contribution_guidelines_link")
           \/ KitWants("contribution_guidelines_summary_ai"))
          /\ ~KitInfo.repo_full_name.isNone
       THEN \E resp \in KitDetailsAgain :
               LET asks_again == ~TruthyStr(KitInfo.branch_from_api)
                   branch_to_use ==
                       IF asks_again
                       THEN DefaultBranchOf(GetRepositoryDetails(GITHUB_PAT, resp))
                       ELSE KitInfo.branch_from_api
                   called == Append(kit_calls,
                                    [call |-> "get_file_url_from_repo",
                                     default_branch |-> KitInfo.branch_from_api])
               IN  \* an answer that is never asked for is not a different run
                   /\ ~asks_again => resp = [kind |-> "timeout"]
                   /\ \E found \in KitFoundUrls(BranchesToAttempt(branch_to_use)) :
                          kit_answers' = [kit_answers EXCEPT !.found = Some(found)]
                   /\ kit_calls' =
                        IF asks_again
                        THEN Append(called, DetailsAskedBy("get_file_url_from_repo", resp))
                        ELSE called
       ELSE UNCHANGED <<kit_answers, kit_calls>>
    /\ kit_pc' = "content"
    /\ UNCHANGED <<cfgVars, notKitVars, handle_args, kit_args, kit_result, handle_result>>

\* line 94: it fetches the file at the path it inferred from the link;
\* get_file_content (github_client.py 199-205) asks for the repository again
\* when it is given no branch
KitContent ==
    /\ kit_pc = "content"
    /\ IF ~kit_answers.found.isNone /\ ~kit_answers.found.v.isNone
          /\ ~PathThatWorked(kit_answers.found.v.v).isNone
       THEN \E resp \in KitDetailsAgain,
               text \in {None} \cup {Some(d) : d \in KitDocuments} :
               LET asks_again == ~TruthyStr(KitInfo.branch_from_api)
                   called == Append(kit_calls,
                                    [call |-> "get_file_content",
                                     file_path |-> PathThatWorked(kit_answers.found.v.v).v,
                                     branch |-> KitInfo.branch_from_api])
               IN  /\ ~asks_again => resp = [kind |-> "timeout"]
                   /\ kit_answers' = [kit_answers EXCEPT !.content = Some(text)]
                   /\ kit_calls' =
                        IF asks_again
                        THEN Append(called, DetailsAskedBy("get_file_content", resp))
                        ELSE called
       ELSE UNCHANGED <<kit_answers, kit_calls>>
    /\ kit_pc' = "summarize"
    /\ UNCHANGED <<cfgVars, notKitVars, handle_args, kit_args, kit_result, handle_result>>

\* KitSummarize without the test of line 95: whatever the fetch returned is summarised
KitSummarizeWhateverFetched ==
    /\ kit_pc = "summarize"
    /\ IF ~kit_answers.content.isNone
       THEN \E reply \in KitLlmReplies :
               LET text == IF kit_answers.content.v.isNone THEN [words |-> 0, chars |-> 0]
                           ELSE kit_answers.content.v.v
                   out  == SummarizeTextContent(client, text, reply)
               IN  /\ out.calls = 0 => reply = [kind |-> "ok", content |-> None]
                   /\ kit_answers' = [kit_answers EXCEPT !.summary_reply = Some(reply)]
                   /\ kit_calls' = Append(kit_calls,
                         [call |-> "summarize_text_content", llm_calls |-> out.calls])
       ELSE UNCHANGED <<kit_answers, kit_calls>>
    /\ kit_pc' = "listing"
    /\ UNCHANGED <<cfgVars, notKitVars, handle_args, kit_args, kit_result, handle_result>>

\* line 97: it summarises the content, if there is any
KitSummarize ==
    /\ kit_pc = "summarize"
    /\ IF ~kit_answers.content.isNone /\ ~kit_answers.content.v.isNone
          /\ TruthyDoc(kit_answers.content.v.v)
       THEN \E reply \in KitLlmReplies :
               LET out == SummarizeTextContent(client, kit_answers.content.v.v, reply)
               IN  \* an answer that is never asked for is not a different run
                   /\ out.calls = 0 => reply = [kind |-> "ok", content |-> None]
                   /\ kit_answers' = [kit_answers EXCEPT !.summary_reply = Some(reply)]
                   /\ kit_calls' = Append(kit_calls,
                         [call |-> "summarize_text_content", llm_calls |-> out.calls])
       ELSE UNCHANGED <<kit_answers, kit_calls>>
    /\ kit_pc' = "listing"
    /\ UNCHANGED <<cfgVars, notKitVars, handle_args, kit_args, kit_result, handle_result>>

\* line 124: the structure section asks Modal for the listing
KitListing ==
    /\ kit_pc = "listing"
    /\ IF KitWants("repository_structure_modal_ai")
          /\ HasRepoUrl(kit_args.issue_data.repository_html_url)
       THEN \E outcome \in ModalOutcomes :
               /\ kit_answers' = [kit_answers EXCEPT
                                    !.modal = Some(GetRepoFileListingViaModal(outcome))]
               /\ kit_calls' = Append(kit_calls, Called("get_repo_file_listing_via_modal"))
       ELSE UNCHANGED <<kit_answers, kit_calls>>
    /\ kit_pc' = "suggest"
    /\ UNCHANGED <<cfgVars, notKitVars, handle_args, kit_args, kit_result, handle_result>>

\* line 137: it asks for suggestions, if the listing has files
KitSuggest ==
    /\ kit_pc = "suggest"
    /\ IF ~kit_answers.modal.isNone /\ kit_answers.modal.v.status = "success"
          /\ kit_answers.modal.v.files > 0
       THEN \E reply \in KitLlmReplies :
               LET out == SuggestRelevantCodeLocations(
                              client, kit_args.issue_data.body_snippet,
                              kit_answers.modal.v.files, reply)
               IN  /\ out.calls = 0 => reply = [kind |-> "ok", content |-> None]
                   /\ kit_answers' = [kit_answers EXCEPT !.suggest_reply = Some(reply)]
                   /\ kit_calls' = Append(kit_calls,
                         [call |-> "suggest_relevant_code_locations",
                          llm_calls |-> out.calls])
       ELSE UNCHANGED <<kit_answers, kit_calls>>
    /\ kit_pc' = "return"
    /\ UNCHANGED <<cfgVars, notKitVars, handle_args, kit_args, kit_result, handle_result>>

\* line 228: the document is joined and returned
KitReturn ==
    /\ kit_pc = "return"
    /\ kit_result' = Some(GenerateKitFromPlan(kit_args.issue_data,
                                              kit_args.language_searched,
                                              kit_args.components_to_include,
                                              kit_answers, client))
    /\ kit_pc' = IF handle_args.present THEN "handle_return" ELSE "done"
    /\ UNCHANGED <<cfgVars, notKitVars, handle_args, kit_args, kit_answers, kit_calls,
                   handle_result>>

(***************************************************************************)
(* app.handle_kit_generation                                               *)
(*                                                                         *)
(* A picker entry "k. title" is the pair of its ordinal and its title.     *)
(***************************************************************************)
HandleMessage(text) == [kind |-> "message", text |-> text, checklist_visible |-> FALSE]

HandleKit(kit_markdown_content) ==
    [kind |-> "kit", kit |-> kit_markdown_content, checklist_visible |-> TRUE]

\* SelectedIssueIndex that compares the titles without their numbers
SelectedIssueIndexByTitle(selected, current_issues_state) ==
    LET hits == {i \in DOMAIN current_issues_state :
                    current_issues_state[i].title = selected[2]}
    IN  IF hits = {} THEN 0 ELSE CHOOSE i \in hits : \A j \in hits : i <= j

\* lines 166-170: the first stored issue whose numbered title is the selected one
SelectedIssueIndex(selected, current_issues_state) ==
    LET hits == {i \in DOMAIN current_issues_state :
                    <<i, current_issues_state[i].title>> = selected}
    IN  IF hits = {} THEN 0 ELSE CHOOSE i \in hits : \A j \in hits : i <= j

\* lines 174-179: what is returned without generating, for a plan response
PlanRefused(plan_response) ==
    IF plan_response.isNone
    THEN \* plan_response.get('error', ...) on None, caught at line 183
         Some(HandleMessage(<<"Unexpected error generating kit: ",
                              "'NoneType' object has no attribute 'get'">>))
    ELSE IF "error" \in DOMAIN plan_response.v
    THEN Some(HandleMessage(<<"Error planning kit: ">> \o plan_response.v.error
                            \o <<". ">>
                            \o (IF "details" \in DOMAIN plan_response.v
                                THEN plan_response.v.details ELSE <<"">>)))
    ELSE IF plan_response.v.include_components = <<>>
    THEN Some(HandleMessage(<<"AI planner decided no kit components needed.">>))
    ELSE None

\* the planner's answers drawn: every failure, every short list, the full list
HandlePlanReplies ==
    {r \in PlanReplies :
        (r.kind = "json" /\ r.body.type = "dict" /\ ~r.body.include_components.isNone
         /\ r.body.include_components.v.is_list)
            => Len(r.body.include_components.v.v) <= MaxKitPlan
        }
    \cup {[kind |-> "json", body |-> PlanJson(AList(available_components))]}

\* lines 158-179: the checks, the selection and the planning
HandleSelectAndPlan ==
    /\ kit_pc = "handle"
    /\ IF handle_args.selected_issue_title_with_num.isNone
          \/ handle_args.current_issues_state = <<>>
       THEN /\ handle_result' = Some(HandleMessage(<<"Please select an issue first...">>))
            /\ kit_pc' = "done"
            /\ UNCHANGED <<kit_args, kit_answers, kit_calls>>
       ELSE LET i == SelectedIssueIndex(handle_args.selected_issue_title_with_num.v,
                                       handle_args.current_issues_state)
                language_searched_state ==
                    IF handle_args.language_searched_state = ""
                    THEN "the project's primary language"
                    ELSE handle_args.language_searched_state
            IN  IF i = 0
                THEN /\ handle_result' =
                          Some(HandleMessage(<<"Error: Could not find data for issue">>))
                     /\ kit_pc' = "done"
                     /\ UNCHANGED <<kit_args, kit_answers, kit_calls>>
                ELSE \E reply \in HandlePlanReplies :
                        LET selected_issue_obj == handle_args.current_issues_state[i]
                            out == PlanOnboardingKitComponents(client, selected_issue_obj,
                                                               reply)
                        IN  /\ out.calls = 0 => reply = [kind |-> "not_json"]
                            /\ kit_answers' = [kit_answers EXCEPT
                                                 !.plan_reply = Some(reply)]
                            /\ kit_calls' = Append(kit_calls,
                                  [call |-> "plan_onboarding_kit_components",
                                   issue_data |-> selected_issue_obj,
                                   llm_calls |-> out.calls, warned |-> out.warned])
                            /\ IF PlanRefused(out.result).isNone
                               THEN /\ kit_args' =
                                         [issue_data |-> selected_issue_obj,
                                          language_searched |-> language_searched_state,
                                          components_to_include |->
                                              out.result.v.include_components]
                                    /\ kit_pc' = "call"
                                    /\ UNCHANGED handle_result
                               ELSE /\ handle_result' = PlanRefused(out.result)
                                    /\ kit_pc' = "done"
                                    /\ UNCHANGED kit_args
    /\ UNCHANGED <<cfgVars, notKitVars, handle_args, kit_result>>

\* lines 180-182: the kit comes back and is shown, the checklist with it
HandleReturn ==
    /\ kit_pc = "handle_return"
    /\ handle_result' = Some(HandleKit(kit_result.v))
    /\ kit_pc' = "done"
    /\ UNCHANGED <<cfgVars, notKitVars, handle_args, kit_args, kit_answers, kit_calls,
                   kit_result>>

NoKitArgs == [issue_data |-> NoIssue, language_searched |-> "", components_to_include |-> <<>>]

NoHandleArgs == [present |-> FALSE]

KitIdle ==
    /\ kit_pc = "idle"
    /\ handle_args = NoHandleArgs
    /\ kit_args = NoKitArgs
    /\ kit_answers = NoAnswers
    /\ kit_calls = <<>>
    /\ kit_result = None
    /\ handle_result = None

NextKit ==
    \/ KitEnter \/ KitDetails \/ KitProbe \/ KitContent
    \/ KitSummarize \/ KitListing \/ KitSuggest \/ KitReturn

NextHandle == HandleSelectAndPlan \/ NextKit \/ HandleReturn

(***************************************************************************)
(* app.find_and_suggest_issues                                             *)
(***************************************************************************)
MaxShown   == 5     \* issues displayed, and asked of the search (per_page)
MaxRanked  == 3     \* issues handed to the LLM
MaxFound   == 6     \* most items the search endpoint answers with

RECURSIVE SplitAt(_, _, _)
\* s.split(sep): cur is the part being read
SplitAt(s, sep, cur) ==
    IF s = <<>> THEN <<cur>>
    ELSE IF Head(s) = sep THEN <<cur>> \o SplitAt(Tail(s), sep, <<>>)
    ELSE SplitAt(Tail(s), sep, Append(cur, Head(s)))

\* FinalTopicsSet of the entries as they were typed
TopicsAsTyped(selected_curated_topics, custom_topics_str) ==
    (IF selected_curated_topics.isNone THEN {} ELSE Range(selected_curated_topics.v))
    \cup
    (IF custom_topics_str.isNone \/ custom_topics_str.v = <<>> THEN {}
     ELSE Range(SplitAt(custom_topics_str.v, ",", <<>>)))

\* lines 81-89: the set of trimmed, lower-cased, non-blank topics
FinalTopicsSet(selected_curated_topics, custom_topics_str) ==
    (IF selected_curated_topics.isNone THEN {}
     ELSE {Lower(Strip(t)) : t \in {u \in Range(selected_curated_topics.v) :
                                       Strip(u) /= <<>>}})
    \cup
    (IF custom_topics_str.isNone \/ custom_topics_str.v = <<>> THEN {}
     ELSE {Lower(Strip(ct)) : ct \in {u \in Range(SplitAt(custom_topics_str.v, ",", <<>>)) :
                                         Strip(u) /= <<>>}})

\* list(a_set): the elements, once each, in an order the code does not choose
ListsOf(S) ==
    {l \in SeqsUpTo(S, Cardinality(S)) : Len(l) = Cardinality(S) /\ Range(l) = S}

Hidden == [choices |-> <<>>, value |-> None, visible |-> FALSE]

\* FindNothing that leaves the generate-kit button on the page
FindNothingButtonShown(issues_markdown, language_searched) ==
    [issues_markdown |-> [kind |-> "message", text |-> issues_markdown],
     llm_suggestion |-> None, raw_issues_state |-> None,
     dropdown |-> Hidden, button_visible |-> TRUE, controls_visible |-> FALSE,
     display_visible |-> FALSE, language_searched |-> language_searched]

\* the outputs of a search that shows no issues
FindNothing(issues_markdown, language_searched) ==
    [issues_markdown |-> [kind |-> "message", text |-> issues_markdown],
     llm_suggestion |-> None, raw_issues_state |-> None,
     dropdown |-> Hidden, button_visible |-> FALSE, controls_visible |-> FALSE,
     display_visible |-> FALSE, language_searched |-> language_searched]

\* lines 117-128: one numbered entry for each of the first five issues
IssuesDisplayList(fetched_issues_list) ==
    [i \in 1..(IF Len(fetched_issues_list) < MaxShown THEN Len(fetched_issues_list)
               ELSE MaxShown) |->
        [ordinal |-> i, title |-> fetched_issues_list[i].title,
         html_url |-> fetched_issues_list[i].html_url]]

IssueTitlesForDropdown(fetched_issues_list) ==
    [i \in DOMAIN IssuesDisplayList(fetched_issues_list) |->
        <<i, fetched_issues_list[i].title>>]

\* Prefix taken from the end of the list: l[-n:]
Suffix(l, n) == SubSeq(l, IF Len(l) < n THEN 1 ELSE Len(l) - n + 1, Len(l))

\* l[:n]
Prefix(l, n) == SubSeq(l, 1, IF Len(l) < n THEN Len(l) ELSE n)

\* llm_handler.py 40-49: the issues as the prompt numbers them
PromptIssues(issues_data) ==
    [i \in DOMAIN issues_data |->
        [ordinal |-> i, title |-> issues_data[i].title,
         html_url |-> issues_data[i].html_url]]

PlainText(text) == [kind |-> "plain", text |-> text]

\* line 137: the suggestion under the heading "AI Navigator's Suggestion:"
AiSuggestion(suggestion) == [kind |-> "ai_suggestion", suggestion |-> suggestion]

\* LlmSuggestionText without the test of the API key
SuggestionWithoutKeyTest(issues_for_llm, key, cl, reply) ==
    LET out == GetSimpleIssueSuggestion(cl, Len(issues_for_llm), reply)
    IN  [asked |-> TRUE, llm_calls |-> out.calls,
         text |-> IF TruthyResult(out.result) THEN AiSuggestion(out.result)
                  ELSE PlainText("LLM processed the request but gave an empty response or an error occurred.")]

\* lines 130-142: the text of the suggestion panel and the LLM calls made for it
LlmSuggestionText(issues_for_llm, key, cl, reply) ==
    IF issues_for_llm /= <<>> /\ key
    THEN LET out == GetSimpleIssueSuggestion(cl, Len(issues_for_llm), reply)
         IN  [asked |-> TRUE, llm_calls |-> out.calls,
              text |-> IF TruthyResult(out.result) THEN AiSuggestion(out.result)
                       ELSE PlainText("LLM processed the request but gave an empty response or an error occurred.")]
    ELSE IF ~key
    THEN [asked |-> FALSE, llm_calls |-> 0,
          text |-> PlainText("OpenAI API Key not configured. LLM suggestion skipped.")]
    ELSE [asked |-> FALSE, llm_calls |-> 0,
          text |-> PlainText("No issues were available to provide a suggestion for.")]

\* lines 105-152: the outputs for what the search returned
FindOutputs(fetched_issues_list, language_to_search, final_topics_list, key, cl, reply) ==
    IF fetched_issues_list.isNone
    THEN [asked |-> FALSE, llm_calls |-> 0,
          result |-> Some(FindNothing(
                        <<"Error: Could not fetch issues from GitHub. Check server logs.">>,
                        language_to_search))]
    ELSE IF "raised" \in DOMAIN fetched_issues_list
    THEN \* nothing in find_and_suggest_issues catches it
         [asked |-> FALSE, llm_calls |-> 0, result |-> fetched_issues_list]
    ELSE IF fetched_issues_list.v = <<>>
    THEN [asked |-> FALSE, llm_calls |-> 0,
          result |-> Some(FindNothing(
                        <<"No beginner-friendly issues found for ", language_to_search,
                          IF final_topics_list.isNone THEN <<>>
                          ELSE Join(<<",", " ">>, final_topics_list.v)>>,
                        language_to_search))]
    ELSE LET suggestion == LlmSuggestionText(Prefix(fetched_issues_list.v, MaxRanked),
                                             key, cl, reply)
             titles == IssueTitlesForDropdown(fetched_issues_list.v)
         IN  [asked |-> suggestion.asked, llm_calls |-> suggestion.llm_calls,
              result |-> Some(
                 [issues_markdown |->
                      [kind |-> "issues",
                       entries |-> IssuesDisplayList(fetched_issues_list.v)],
                  llm_suggestion |-> Some(suggestion.text),
                  raw_issues_state |-> fetched_issues_list,
                  dropdown |-> [choices |-> titles, value |-> Some(titles[1]),
                                visible |-> TRUE],
                  button_visible |-> TRUE, controls_visible |-> TRUE,
                  display_visible |-> TRUE,
                  language_searched |-> language_to_search])]

\* what the search endpoint may answer to a search of the app
ItemNo(i) ==
    [title |-> IF i % 2 = 1 THEN "T1" ELSE "T2",
     html_url |-> IF i % 2 = 1 THEN "u1" ELSE "u2", updated_at |-> 1, created_at |-> 1]

FindResponses ==
    {[kind |-> k] : k \in FailureKinds}
    \cup {[kind |-> "json", body |-> JsonDict(TRUE, [i \in 1..n |-> ItemNo(i)], FALSE)] :
              n \in 0..MaxFound}
    \cup {[kind |-> "json", body |-> b] :
              b \in {JsonDict(FALSE, <<>>, FALSE), JsonDict(FALSE, <<>>, TRUE),
                     JsonList(1), JsonNull}}

\* lines 44-152 for given inputs, when the set of topics is listed in 'order',
\* the search endpoint answers resp and the chat completion does reply: the
\* calls made and the tuple of outputs returned (or the exception raised)
FindHandler(args, order, resp, reply, pat, key, cl) ==
    IF args.selected_language.isNone \/ args.selected_language.v = <<>>
    THEN [sent |-> FALSE, llm_calls |-> 0, calls |-> <<>>,
          result |-> Some(FindNothing(<<"Please select a programming language.">>, <<>>))]
    ELSE LET language_to_search == Lower(Strip(args.selected_language.v))
             final_topics_set ==
                 FinalTopicsSet(args.selected_curated_topics, args.custom_topics_str)
             final_topics_list ==
                 IF final_topics_set = {} THEN None ELSE Some(order)
             fetched ==
                 FetchBeginnerIssues(
                     [language |-> language_to_search,
                      topics |-> final_topics_list, labels |-> None,
                      sort |-> "updated", order |-> "desc",
                      per_page |-> MaxShown, page |-> 1],
                     pat, resp)
             out == FindOutputs(fetched.result, language_to_search,
                                final_topics_list, key, cl, reply)
         IN  [sent |-> fetched.requests /= <<>>, llm_calls |-> out.llm_calls,
              calls |->
                  <<[call |-> "fetch_beginner_issues",
                     language |-> language_to_search,
                     topics |-> final_topics_list,
                     requests |-> fetched.requests,
                     response |-> resp]>>
                  \o (IF out.asked
                      THEN <<[call |-> "get_simple_issue_suggestion",
                              issues_data |-> Prefix(fetched.result.v, MaxRanked),
                              llm_calls |-> out.llm_calls]>>
                      ELSE <<>>),
              result |-> out.result]

\* The whole handler: the search, the ranking, the outputs.
FindAndSuggestIssues ==
    /\ find_pc = "call"
    /\ \E order \in ListsOf(FinalTopicsSet(find_args.selected_curated_topics,
                                           find_args.custom_topics_str)),
          resp \in FindResponses, reply \in OkReplies \cup RaiseReplies :
          LET out == FindHandler(find_args, order, resp, reply, GITHUB_PAT,
                                 OPENAI_API_KEY, client)
          IN  \* an answer that is never asked for is not a different run
              /\ ~out.sent => resp = [kind |-> "timeout"]
              /\ out.llm_calls = 0 => reply = [kind |-> "ok", content |-> None]
              /\ out.calls = <<>> => order = CHOOSE l \in ListsOf(FinalTopicsSet(
                                         find_args.selected_curated_topics,
                                         find_args.custom_topics_str)) : TRUE
              /\ find_result' = out.result
              /\ find_calls' = out.calls
    /\ find_pc' = "done"
    /\ UNCHANGED <<cfgVars, notFindVars, find_args>>

NoFindArgs ==
    [selected_language |-> None, selected_curated_topics |-> None,
     custom_topics_str |-> None]

FindIdle ==
    /\ find_pc = "idle"
    /\ find_args = NoFindArgs
    /\ find_calls = <<>>
    /\ find_result = None

(***************************************************************************)
(* app.py, lines 189-276: the page                                         *)
(*                                                                         *)
(* Gradio keeps, for each browser session, its own copy of the components  *)
(* and of the two gr.State values.  A click hands the handler the values   *)
(* of its inputs in that session and, when the handler returns, writes the *)
(* values returned to its outputs in that session; a handler that raises   *)
(* writes nothing.  Handlers run in worker threads, so a click of one      *)
(* session may start and end while another handler is running.             *)
(***************************************************************************)
Sessions  == {1, 2}
MaxClicks == 3      \* clicks made in a run, over all sessions

\* lines 220-257: the components and states as a page load creates them
NewSession ==
    [issues_output           |-> None,
     llm_suggestion_output   |-> None,
     raw_issues_state        |-> Some(<<>>),
     dropdown                |-> [choices |-> <<>>, value |-> None, visible |-> TRUE],
     button_visible          |-> FALSE,
     controls_visible        |-> FALSE,
     display_visible         |-> FALSE,
     language_searched_state |-> <<>>,
     kit_output              |-> None,
     checklist_visible       |-> FALSE]

\* the two values a search stores for the kit
StoredBy(outputs) ==
    [raw_issues_state        |-> outputs.raw_issues_state,
     language_searched_state |-> outputs.language_searched]

\* no handler in flight; last_search is what the session's latest search that
\* returned gave for the two states, the initial values before any; had_issues
\* says that a search before the latest stored issues; last_kit is what the
\* latest generate-kit that returned was given and which calls it made
NotRunning ==
    [find |-> None, kit |-> None,
     last_search |-> [raw_issues_state |-> Some(<<>>), language_searched_state |-> <<>>],
     had_issues |-> FALSE,
     last_kit |-> None]

\* StoreSearch for states that are one module-level value, shared by every session
StoreSearchInEverySession(sessions, s, outputs) ==
    [t \in DOMAIN sessions |->
        IF t = s
        THEN [sessions[t] EXCEPT
                  !.issues_output           = Some(outputs.issues_markdown),
                  !.llm_suggestion_output   = outputs.llm_suggestion,
                  !.raw_issues_state        = outputs.raw_issues_state,
                  !.dropdown                = outputs.dropdown,
                  !.button_visible          = outputs.button_visible,
                  !.controls_visible        = outputs.controls_visible,
                  !.display_visible         = outputs.display_visible,
                  !.language_searched_state = outputs.language_searched]
        ELSE [sessions[t] EXCEPT
                  !.raw_issues_state        = outputs.raw_issues_state,
                  !.language_searched_state = outputs.language_searched]]

\* StoreSearch that leaves the stored issue list as it is when None is returned for it
StoreSearchKeepingIssues(sessions, s, outputs) ==
    [sessions EXCEPT ![s] =
        [@ EXCEPT !.issues_output           = Some(outputs.issues_markdown),
                  !.llm_suggestion_output   = outputs.llm_suggestion,
                  !.raw_issues_state        = IF outputs.raw_issues_state.isNone THEN @
                                              ELSE outputs.raw_issues_state,
                  !.dropdown                = outputs.dropdown,
                  !.button_visible          = outputs.button_visible,
                  !.controls_visible        = outputs.controls_visible,
                  !.display_visible         = outputs.display_visible,
                  !.language_searched_state = outputs.language_searched]]

\* lines 260-269: the eight outputs of find_button.click, written to session s
StoreSearch(sessions, s, outputs) ==
    [sessions EXCEPT ![s] =
        [@ EXCEPT !.issues_output           = Some(outputs.issues_markdown),
                  !.llm_suggestion_output   = outputs.llm_suggestion,
                  !.raw_issues_state        = outputs.raw_issues_state,
                  !.dropdown                = outputs.dropdown,
                  !.button_visible          = outputs.button_visible,
                  !.controls_visible        = outputs.controls_visible,
                  !.display_visible         = outputs.display_visible,
                  !.language_searched_state = outputs.language_searched]]

\* lines 272-276: the two outputs of generate_kit_button.click, written to session s
StoreKit(sessions, s, result) ==
    [sessions EXCEPT ![s] =
        [@ EXCEPT !.kit_output        = Some(result),
                  !.checklist_visible = result.checklist_visible]]

\* a stored issue as a search leaves it
StoredIssue(title, repo_html_url) ==
    [present |-> TRUE, title |-> title, repository_html_url |-> repo_html_url,
     body_snippet |-> <<"s">>]

\* what a kit reads of a stored issue: its title, the repository of its URL
\* (github_client.py 109, 117) and its body snippet
KitView(issue) == StoredIssue(issue.title, GithubRepoUrl)

\* lines 158-186: handle_kit_generation for given inputs, when the planner's
\* chat completion does plan_reply and the kit's collaborators give answers
HandleKitGeneration(selected, current_issues_state, language_searched_state, cl, plan_reply, answers) ==
    IF selected.isNone \/ current_issues_state.isNone \/ current_issues_state.v = <<>>
    THEN [planned |-> FALSE, generated |-> FALSE,
          result |-> HandleMessage(<<"Please select an issue first...">>)]
    ELSE LET i == SelectedIssueIndex(selected.v, current_issues_state.v)
         IN  IF i = 0
             THEN [planned |-> FALSE, generated |-> FALSE,
                   result |-> HandleMessage(<<"Error: Could not find data for issue">>)]
             ELSE LET selected_issue_obj == KitView(current_issues_state.v[i])
                      plan == PlanOnboardingKitComponents(cl, selected_issue_obj,
                                                          plan_reply)
                  IN  IF ~PlanRefused(plan.result).isNone
                      THEN [planned |-> TRUE, generated |-> FALSE,
                            result |-> PlanRefused(plan.result).v]
                      ELSE [planned |-> TRUE, generated |-> TRUE,
                            result |-> HandleKit(
                               GenerateKitFromPlan(
                                  selected_issue_obj,
                                  IF language_searched_state = <<>>
                                  THEN <<"the project's primary language">>
                                  ELSE language_searched_state,
                                  plan.result.v.include_components, answers, cl))]

\* ---- what the user and the collaborators do in a run of the page ----
PageLanguages == {None, Some(<<"a">>), Some(<<"B", " ">>)}

PageSearchResponses ==
    {[kind |-> "timeout"], [kind |-> "json", body |-> JsonList(1)]}
    \cup {[kind |-> "json", body |-> JsonDict(TRUE, [i \in 1..n |-> ItemNo(i)], FALSE)] :
              n \in {0, 1, MaxFound}}

PageRankReplies == {[kind |-> "ok", content |-> Some(<<"s", " ">>)]}

PagePlanReplies ==
    {[kind |-> "not_json"],
     [kind |-> "json", body |-> PlanJson(AList(available_components))]}

\* every collaborator of the kit fails, or every one answers
PageAnswers ==
    {[plan_reply |-> None, details |-> Some(None), found |-> Some(None),
      content |-> None, summary_reply |-> None,
      modal |-> Some(GetRepoFileListingViaModal([kind |-> "raised", e |-> "e1"])),
      suggest_reply |-> None],
     [plan_reply |-> None, details |-> Some(Some(RepoJson(Some("dev")))),
      found |-> Some(Some(BlobUrl("dev", contributing_paths_to_check[1]))),
      content |-> Some(Some([words |-> ShortDocWords, chars |-> MinChars(ShortDocWords)])),
      summary_reply |-> Some([kind |-> "ok", content |-> Some(<<"s", " ">>)]),
      modal |-> Some(GetRepoFileListingViaModal(
                   [kind |-> "returned", result |-> [status |-> "success", files |-> 1]])),
      suggest_reply |-> Some([kind |-> "ok", content |-> Some(<<"s", " ">>)])]}

\* ---- the steps of the page ----
\* the user of session s clicks 'Find Beginner Issues'
FindClick(s) ==
    /\ clicks < MaxClicks
    /\ running[s].find.isNone
    /\ \E language \in PageLanguages :
          running' = [running EXCEPT ![s].find =
                         Some([selected_language |-> language,
                               selected_curated_topics |-> None,
                               custom_topics_str |-> None])]
    /\ clicks' = clicks + 1
    /\ UNCHANGED <<cfgVars, notPageVars, session>>

\* find_and_suggest_issues ends: its outputs go to the session that clicked
FindReturn(s) ==
    /\ ~running[s].find.isNone
    /\ \E resp \in PageSearchResponses, reply \in PageRankReplies :
          LET out == FindHandler(running[s].find.v, <<>>, resp, reply, GITHUB_PAT,
                                 OPENAI_API_KEY, client)
          IN  /\ ~out.sent => resp = [kind |-> "timeout"]
              /\ IF "raised" \in DOMAIN out.result
                 THEN /\ UNCHANGED session
                      /\ running' = [running EXCEPT ![s].find = None]
                 ELSE /\ session' = StoreSearch(session, s, out.result.v)
                      /\ running' = [running EXCEPT
                                        ![s].find = None,
                                        ![s].last_search = StoredBy(out.result.v),
                                        ![s].had_issues =
                                            \/ @
                                            \/ /\ ~running[s].last_search.raw_issues_state.isNone
                                               /\ running[s].last_search.raw_issues_state.v /= <<>>]
    /\ UNCHANGED <<cfgVars, notPageVars, clicks>>

\* the user of session s picks another entry of the issue picker
PickIssue(s) ==
    /\ \E i \in DOMAIN session[s].dropdown.choices :
          /\ session[s].dropdown.value /= Some(session[s].dropdown.choices[i])
          /\ session' = [session EXCEPT ![s].dropdown.value =
                                            Some(session[s].dropdown.choices[i])]
    /\ UNCHANGED <<cfgVars, notPageVars, running, clicks>>

\* the user of session s clicks 'Generate Onboarding Kit' (or the endpoint is
\* called for the session while the button is hidden)
KitClick(s) ==
    /\ clicks < MaxClicks
    /\ running[s].kit.isNone
    /\ running' = [running EXCEPT ![s].kit =
                      Some([selected_issue_title_with_num |-> session[s].dropdown.value,
                            current_issues_state |-> session[s].raw_issues_state,
                            language_searched_state |->
                                session[s].language_searched_state])]
    /\ clicks' = clicks + 1
    /\ UNCHANGED <<cfgVars, notPageVars, session>>

\* handle_kit_generation ends: its outputs go to the session that clicked
KitShown(s) ==
    /\ ~running[s].kit.isNone
    /\ \E plan_reply \in PagePlanReplies, answers \in PageAnswers :
          LET in  == running[s].kit.v
              out == HandleKitGeneration(in.selected_issue_title_with_num,
                                         in.current_issues_state,
                                         in.language_searched_state, client,
                                         plan_reply, answers)
          IN  /\ (~out.planned \/ ~client) => plan_reply = [kind |-> "not_json"]
              /\ ~out.generated => answers = CHOOSE a \in PageAnswers : a.found = Some(None)
              /\ session' = StoreKit(session, s, out.result)
              /\ running' = [running EXCEPT
                                ![s].kit = None,
                                ![s].last_kit =
                                    Some([current_issues_state |-> in.current_issues_state,
                                          planned |-> out.planned,
                                          generated |-> out.generated])]
    /\ UNCHANGED <<cfgVars, notPageVars, clicks>>

PageStep(s) == FindClick(s) \/ FindReturn(s) \/ PickIssue(s) \/ KitClick(s) \/ KitShown(s)

PageIdle ==
    /\ session = <<>>
    /\ running = <<>>
    /\ clicks = 0

\* ---- what a run of the search is given ----
Items == [title : {"T1"}, html_url : Urls, updated_at : Times, created_at : Times]

SearchResponses ==
    {[kind |-> k] : k \in FailureKinds}
    \cup {[kind |-> "json", body |-> JsonDict(TRUE, its, FALSE)] :
              its \in SeqsUpTo(Items, MaxItems)}
    \cup {[kind |-> "json", body |-> JsonDict(FALSE, <<>>, o)] : o \in BOOLEAN}
    \cup {[kind |-> "json", body |-> b] : b \in {JsonList(0), JsonList(1), JsonNull}}

NoArgs == [language |-> <<>>, topics |-> None, labels |-> None, sort |-> "updated",
           order |-> "desc", per_page |-> 10, page |-> 1]

FetchIdle ==
    /\ fetch_pc = "idle"
    /\ fetch_args = NoArgs
    /\ search_response = [kind |-> "timeout"]
    /\ search_requests = <<>>
    /\ fetch_result = None

\* searches that differ in the topics, the paging and what the endpoint answers
InitFetch ==
    /\ GITHUB_PAT \in BOOLEAN
    /\ OPENAI_API_KEY = TRUE
    /\ client = TRUE
    /\ fetch_pc = "call"
    /\ fetch_args \in
         [language : {<<>>, <<" ", "A">>},
          topics   : {None} \cup {Some(t) : t \in SeqsUpTo(TopicNames, MaxTopics)},
          labels   : {None},
          sort     : {"updated", "created"},
          order    : {"desc", "asc"},
          per_page : {1, 2},
          page     : {1}]
    /\ search_response \in SearchResponses
    /\ search_requests = <<>>
    /\ fetch_result = None
    /\ ProbeIdle
    /\ ContentIdle
    /\ LlmIdle
    /\ KitIdle
    /\ FindIdle
    /\ PageIdle

\* searches that differ in the labels
InitLabels ==
    /\ GITHUB_PAT = TRUE
    /\ OPENAI_API_KEY = TRUE
    /\ client = TRUE
    /\ fetch_pc = "call"
    /\ fetch_args \in
         [language : {<<"a">>, <<" ", "A">>},
          topics   : {None, Some(<<<<"a", " ", "b">>>>)},
          labels   : {None} \cup {Some(l) : l \in SeqsUpTo(LabelNames, MaxLabels)},
          sort     : {"updated"},
          order    : {"desc"},
          per_page : {10},
          page     : {1}]
    /\ search_response \in
         {[kind |-> "timeout"], [kind |-> "json", body |-> JsonDict(FALSE, <<>>, TRUE)]}
    /\ search_requests = <<>>
    /\ fetch_result = None
    /\ ProbeIdle
    /\ ContentIdle
    /\ LlmIdle
    /\ KitIdle
    /\ FindIdle
    /\ PageIdle

\* probes that differ in the paths, the default branch and the answers
InitProbe ==
    /\ GITHUB_PAT \in BOOLEAN
    /\ OPENAI_API_KEY = TRUE
    /\ client = TRUE
    /\ probe_pc = "call"
    /\ probe_args \in
         [repo_full_name      : {"", "owner/repo"},
          file_paths_to_check : SeqsUpTo(PathNames, MaxPaths),
          default_branch      : {None, Some(""), Some("main"), Some("dev")}]
    /\ repo_details = NoDetails
    /\ branches_to_attempt = <<>>
    /\ branch_idx = 1
    /\ path_idx = 1
    /\ probe_log = <<>>
    /\ probe_result = None
    /\ FetchIdle
    /\ ContentIdle
    /\ LlmIdle
    /\ KitIdle
    /\ FindIdle
    /\ PageIdle

\* reads that differ in the branch asked for
InitContent ==
    /\ GITHUB_PAT \in BOOLEAN
    /\ OPENAI_API_KEY = TRUE
    /\ client = TRUE
    /\ content_pc = "call"
    /\ content_args \in
         [repo_full_name : {"", "owner/repo"},
          file_path      : {"", "CONTRIBUTING.md"},
          branch         : {None, Some(""), Some("main"), Some("master"), Some("dev")}]
    /\ branch_arg = content_args.branch
    /\ current_branch = ""
    /\ content_calls = 0
    /\ content_log = <<>>
    /\ content_result = None
    /\ FetchIdle
    /\ ProbeIdle
    /\ LlmIdle
    /\ KitIdle
    /\ FindIdle
    /\ PageIdle

\* documents of every length around the two thresholds
InitSummarize ==
    /\ GITHUB_PAT = TRUE
    /\ LlmConfig
    /\ llm_pc = "call"
    /\ llm_op = "summarize"
    /\ llm_input \in RealDocuments
    /\ llm_reply \in SummarizeReplies
    /\ llm_calls = 0
    /\ llm_warned = FALSE
    /\ llm_result = None
    /\ FetchIdle
    /\ ProbeIdle
    /\ ContentIdle
    /\ KitIdle
    /\ FindIdle
    /\ PageIdle

\* plans answered by the model in every shape
InitPlan ==
    /\ GITHUB_PAT = TRUE
    /\ LlmConfig
    /\ llm_pc = "call"
    /\ llm_op = "plan"
    /\ llm_input \in {[present |-> FALSE], [present |-> TRUE]}
    /\ llm_reply \in PlanReplies
    /\ llm_calls = 0
    /\ llm_warned = FALSE
    /\ llm_result = None
    /\ FetchIdle
    /\ ProbeIdle
    /\ ContentIdle
    /\ KitIdle
    /\ FindIdle
    /\ PageIdle

\* every operation of the LLM layer, on inputs around each of its early returns
LlmInputs(op) ==
    CASE op = "rank"      -> [issues_data : 0..MaxIssues]
      [] op = "summarize" -> {d \in RealDocuments :
                                 d.words \in {0, ShortDocWords - 1, ShortDocWords}}
      [] op = "suggest"   -> [issue_snippet : Snippets, file_list : 0..MaxFiles]
      [] op = "plan"      -> {[present |-> FALSE], [present |-> TRUE]}

LlmReplies(op) == IF op = "plan" THEN PlanReplies ELSE OkReplies \cup RaiseReplies

InitLlm ==
    /\ GITHUB_PAT = TRUE
    /\ LlmConfig
    /\ llm_pc = "call"
    /\ llm_op \in {"rank", "summarize", "suggest", "plan"}
    /\ llm_input \in LlmInputs(llm_op)
    /\ llm_reply \in LlmReplies(llm_op)
    /\ llm_calls = 0
    /\ llm_warned = FALSE
    /\ llm_result = None
    /\ FetchIdle
    /\ ProbeIdle
    /\ ContentIdle
    /\ KitIdle
    /\ FindIdle
    /\ PageIdle

NextLlm ==
    \/ CallGetSimpleIssueSuggestion
    \/ CallSummarizeTextContent
    \/ CallSuggestRelevantCodeLocations
    \/ CallPlanOnboardingKitComponents

\* kits for every short plan and for the full one in both orders
KitPlans ==
    SeqsUpTo(ReplyComponents, MaxKitPlan)
    \cup {available_components,
          [i \in 1..4 |-> available_components[5 - i]]}

InitKit ==
    /\ GITHUB_PAT = TRUE
    /\ client \in BOOLEAN
    /\ OPENAI_API_KEY = client
    /\ kit_pc = "call"
    /\ handle_args = NoHandleArgs
    /\ kit_args \in [issue_data : {d \in IssueData : d.present => d.title = "T1"},
                     language_searched : {"python"},
                     components_to_include : KitPlans]
    /\ kit_answers = NoAnswers
    /\ kit_calls = <<>>
    /\ kit_result = None
    /\ handle_result = None
    /\ FetchIdle
    /\ ProbeIdle
    /\ ContentIdle
    /\ LlmIdle
    /\ FindIdle
    /\ PageIdle

InitHandle ==
    /\ GITHUB_PAT = TRUE
    /\ LlmConfig
    /\ kit_pc = "handle"
    /\ handle_args \in
         [present : {TRUE},
          selected_issue_title_with_num :
              {None, Some(<<1, "T1">>), Some(<<2, "T1">>), Some(<<2, "T2">>)},
          current_issues_state :
              {<<>>, <<StoredIssue("T1", GithubRepoUrl)>>,
               <<StoredIssue("T1", <<"#">>), StoredIssue("T2", GithubRepoUrl)>>,
               <<StoredIssue("T1", GithubRepoUrl), StoredIssue("T1", <<"#">>)>>},
          language_searched_state : {"", "python"}]
    /\ kit_args = NoKitArgs
    /\ kit_answers = NoAnswers
    /\ kit_calls = <<>>
    /\ kit_result = None
    /\ handle_result = None
    /\ FetchIdle
    /\ ProbeIdle
    /\ ContentIdle
    /\ LlmIdle
    /\ FindIdle
    /\ PageIdle

InitFind ==
    /\ GITHUB_PAT \in BOOLEAN
    /\ LlmConfig
    /\ find_pc = "call"
    /\ find_args \in
         [selected_language : {None, Some(<<>>), Some(<<" ">>), Some(<<" ", "A">>)},
          selected_curated_topics :
              {None, Some(<<>>), Some(<< <<"a">> >>), Some(<< <<"A", " ">>, <<" ">>, <<"b">> >>)},
          custom_topics_str :
              {None, Some(<<>>), Some(<<"a", ",", " ", "B", ",", " ">>)}]
    /\ find_calls = <<>>
    /\ find_result = None
    /\ FetchIdle
    /\ ProbeIdle
    /\ ContentIdle
    /\ LlmIdle
    /\ KitIdle
    /\ PageIdle

InitPage ==
    /\ GITHUB_PAT = TRUE
    /\ OPENAI_API_KEY = TRUE
    /\ client \in BOOLEAN
    /\ session = [s \in Sessions |-> NewSession]
    /\ running = [s \in Sessions |-> NotRunning]
    /\ clicks = 0
    /\ FetchIdle
    /\ ProbeIdle
    /\ ContentIdle
    /\ LlmIdle
    /\ FindIdle
    /\ KitIdle

NextPage ==
    \/ \E s \in Sessions : FindClick(s)
    \/ \E s \in Sessions : FindReturn(s)
    \/ \E s \in Sessions : PickIssue(s)
    \/ \E s \in Sessions : KitClick(s)
    \/ \E s \in Sessions : KitShown(s)

NextFind == FindAndSuggestIssues

NextFetch == CallFetchBeginnerIssues

(***************************************************************************)
(* The specifications: one operation called once, for every input drawn    *)
(***************************************************************************)
SpecFetch     == InitFetch /\ [][NextFetch]_vars
SpecLabels    == InitLabels /\ [][NextFetch]_vars
SpecProbe     == InitProbe /\ [][NextProbe]_vars
\* a call runs to its return: every request it waits for has a timeout
SpecContent   == InitContent /\ [][NextContent]_vars /\ WF_vars(NextContent)
SpecSummarize == InitSummarize /\ [][NextSummarize]_vars
SpecPlan      == InitPlan /\ [][NextPlan]_vars
SpecLlm       == InitLlm /\ [][NextLlm]_vars
SpecFind      == InitFind /\ [][NextFind]_vars
SpecKit       == InitKit /\ [][NextKit]_vars
SpecHandle    == InitHandle /\ [][NextHandle]_vars
SpecPage      == InitPage /\ [][NextPage]_vars

(***************************************************************************)
(* app.find_and_suggest_issues: the message shown for the search's result  *)
(***************************************************************************)
SearchMessage(fetched_issues_list) ==
    IF fetched_issues_list.isNone
    THEN "Error: Could not fetch issues from GitHub. Check server logs."
    ELSE IF fetched_issues_list.v = <<>>
    THEN "No beginner-friendly issues found"
    ELSE "issues_markdown"

(***************************************************************************)
(* Reading a search query: its clauses, and the label names it asks for    *)
(***************************************************************************)
RECURSIVE SplitOutsideQuotes(_, _, _, _)
\* s split at every sep that is not inside double quotes
SplitOutsideQuotes(s, sep, cur, in_quotes) ==
    IF s = <<>> THEN <<cur>>
    ELSE LET c == Head(s)
         IN  IF c = Quote
             THEN SplitOutsideQuotes(Tail(s), sep, Append(cur, c), ~in_quotes)
             ELSE IF c = sep /\ ~in_quotes
             THEN <<cur>> \o SplitOutsideQuotes(Tail(s), sep, <<>>, FALSE)
             ELSE SplitOutsideQuotes(Tail(s), sep, Append(cur, c), in_quotes)

NonEmpty(t) == t /= <<>>

Clauses(q) == SelectSeq(SplitOutsideQuotes(q, " ", <<>>, FALSE), NonEmpty)

IsLabelClause(t) == Head(t) = "label:"
IsTopicClause(t) == Head(t) = "topic:"

LabelClauses(q) == SelectSeq(Clauses(q), IsLabelClause)
TopicClauses(q) == SelectSeq(Clauses(q), IsTopicClause)

Unquote(v) ==
    IF Len(v) >= 2 /\ v[1] = Quote /\ v[Len(v)] = Quote
    THEN SubSeq(v, 2, Len(v) - 1)
    ELSE v

\* the label names of a query: every comma-separated value of every label clause
ParseLabels(q) ==
    UNION { {Unquote(x) : x \in Range(SplitOutsideQuotes(Tail(t), ",", <<>>, FALSE))} :
            t \in Range(LabelClauses(q)) }

HasSpace(s) == \E i \in DOMAIN s : s[i] = " "

NonBlank(s) == Strip(s) /= <<>>

QuoteIfSpace(s) == IF HasSpace(s) THEN <<Quote>> \o s \o <<Quote>> ELSE s

StripOf(names) == [i \in DOMAIN names |-> Strip(names[i])]

\* the one clause the label names make when joined by commas
CommaLabelClause(labels) ==
    LET names == SelectSeq(StripOf(labels), NonEmpty)
    IN  <<"label:">> \o Join(<<",">>, [i \in DOMAIN names |-> QuoteIfSpace(names[i])])

Reorderings(s) ==
    {[i \in DOMAIN s |-> s[f[i]]] :
        f \in {g \in [DOMAIN s -> DOMAIN s] : \A i, j \in DOMAIN s : g[i] = g[j] => i = j}}

(***************************************************************************)
(* Claims about the search                                                 *)
(***************************************************************************)
FetchDone     == fetch_pc = "done"
ReturnedList  == FetchDone /\ ~fetch_result.isNone /\ "v" \in DOMAIN fetch_result
TopicsGiven   == ~fetch_args.topics.isNone /\ fetch_args.topics.v /= <<>>
\* the endpoint answered with a failure or with a JSON object
FailureOrObject ==
    search_response.kind = "json" => search_response.body.type = "dict"
RequestIssued == FetchDone /\ Len(search_requests) >= 1

\* C1: the list a search returns holds no two records with the same html_url,
\* whatever items the search endpoint returned.
C1_UniqueUrls ==
    ReturnedList =>
        \A i, j \in DOMAIN fetch_result.v :
            fetch_result.v[i].html_url = fetch_result.v[j].html_url => i = j

NormTopics(ts) == {Lower(Strip(ts[i])) : i \in DOMAIN ts}

\* the topic list is n >= 1 non-blank topics, no two of them the same topic
DistinctNonBlankTopics ==
    /\ TopicsGiven
    /\ \A i \in DOMAIN fetch_args.topics.v : NonBlank(fetch_args.topics.v[i])
    /\ Cardinality(NormTopics(fetch_args.topics.v)) = Len(fetch_args.topics.v)

\* C2: with n distinct non-blank topics the search issues one request per topic,
\* and every request's query has exactly one topic: clause.
C2_OneTopicPerRequest ==
    (FetchDone /\ GITHUB_PAT /\ fetch_args.language /= <<>> /\ DistinctNonBlankTopics) =>
        /\ Len(search_requests) = Len(fetch_args.topics.v)
        /\ \A r \in DOMAIN search_requests :
               Len(TopicClauses(search_requests[r].q)) = 1

SortKey(item, sort) == IF sort = "created" THEN item.created_at ELSE item.updated_at

InOrder(a, b, order) == IF order = "asc" THEN a <= b ELSE a >= b

\* the endpoint answered the request as asked: at most per_page items, sorted
\* by the requested key in the requested direction, no issue twice
EndpointHonoursRequest ==
    /\ search_response.kind = "json"
    /\ search_response.body.type = "dict"
    /\ LET its == search_response.body.items
       IN  /\ Len(its) <= fetch_args.per_page
           /\ \A i, j \in DOMAIN its : its[i].html_url = its[j].html_url => i = j
           /\ \A i, j \in DOMAIN its :
                  i < j => InOrder(SortKey(its[i], fetch_args.sort),
                                   SortKey(its[j], fetch_args.sort), fetch_args.order)

\* C3: with a non-empty topic list the returned list has at most per_page records
\* and is ordered by updated_at in the direction of order.  Stated for the answers
\* of an endpoint that honours per_page, sort and order: it fails even there.
C3_SortedByUpdatedAndTruncated ==
    (ReturnedList /\ DistinctNonBlankTopics /\ EndpointHonoursRequest) =>
        /\ Len(fetch_result.v) <= fetch_args.per_page
        /\ \A i, j \in DOMAIN fetch_result.v :
               i < j => InOrder(fetch_result.v[i].updated_at,
                                fetch_result.v[j].updated_at, fetch_args.order)

\* the label list the call works with
EffectiveLabels ==
    IF fetch_args.labels.isNone THEN DefaultLabels ELSE fetch_args.labels.v

LabelsGiven == \E i \in DOMAIN EffectiveLabels : NonBlank(EffectiveLabels[i])

\* C4: for a label list with a non-blank label the query has exactly one label:
\* clause, the names joined by commas, only names with a space quoted.
C4_SingleCommaJoinedLabelClause ==
    (RequestIssued /\ LabelsGiven) =>
        LabelClauses(search_requests[1].q) = <<CommaLabelClause(EffectiveLabels)>>

\* C5 as stated: the label names read back from the query are exactly the names
\* of the list.
C5_RoundTripExact ==
    (RequestIssued /\ ~fetch_args.labels.isNone) =>
        ParseLabels(search_requests[1].q) = Range(fetch_args.labels.v)

\* C5 amended: the label names read back from the query are the trimmed
\* non-blank names of the list, and every permutation of the list gives a query
\* with the same names.
C5_RoundTripTrimmed ==
    (RequestIssued /\ ~fetch_args.labels.isNone) =>
        /\ ParseLabels(search_requests[1].q)
             = {Strip(l) : l \in Range(fetch_args.labels.v)} \ {<<>>}
        /\ \A p \in Reorderings(fetch_args.labels.v) :
               ParseLabels(QString(fetch_args.language, fetch_args.topics, Some(p)))
                 = ParseLabels(search_requests[1].q)

\* a query was built from a list with a padded name, a blank name and a name
\* with an inner space
C5_Witness ==
    /\ RequestIssued
    /\ ~fetch_args.labels.isNone
    /\ fetch_args.labels.v = << <<" ", "a">>, <<" ">>, <<"a", " ", "b">> >>
    /\ ParseLabels(search_requests[1].q) = {<<"a">>, <<"a", " ", "b">>}

\* C6: a search without topics issues exactly one request and returns a list when
\* the decoded body has items, [] for every decoded JSON object without items
\* (the empty object included) and None only when the request failed; the app
\* shows different messages for None and [].
C6_ThreeOutcomes ==
    (FetchDone /\ GITHUB_PAT /\ ~TopicsGiven /\ fetch_args.language /= <<>>
       /\ FailureOrObject) =>
        /\ Len(search_requests) = 1
        /\ (search_response.kind = "json" /\ search_response.body.type = "dict") =>
               IF search_response.body.has_items
               THEN fetch_result = Some(IssuesList(search_response.body.items))
               ELSE fetch_result = Some(<<>>)
        /\ fetch_result = None => search_response.kind \in FailureKinds
        /\ SearchMessage(None) /= SearchMessage(Some(<<>>))

(***************************************************************************)
(* Claims about get_file_url_from_repo                                     *)
(***************************************************************************)
ProbeDone == probe_pc = "done"

ProbeArgsValid ==
    probe_args.repo_full_name /= "" /\ probe_args.file_paths_to_check /= <<>>

\* the default branch the repository endpoint gave, if it was asked and gave one
ResolvedBranch ==
    IF repo_details.asked /\ ~repo_details.data.isNone
       /\ ~repo_details.data.v.default_branch.isNone
       /\ repo_details.data.v.default_branch.v /= ""
    THEN repo_details.data.v.default_branch
    ELSE None

\* the branches the claim names: the given or resolved branch alone, else main, master
ClaimedBranches ==
    IF TruthyStr(probe_args.default_branch) THEN <<probe_args.default_branch.v>>
    ELSE IF ~ResolvedBranch.isNone THEN <<ResolvedBranch.v>>
    ELSE <<"main", "master">>

\* every branch/path pair in probing order: branches outermost, paths in list order
ClaimedPairs ==
    LET paths == probe_args.file_paths_to_check
        np    == Len(paths)
    IN  [k \in 1..(Len(ClaimedBranches) * np) |->
            [branch |-> ClaimedBranches[((k - 1) \div np) + 1],
             path   |-> paths[((k - 1) % np) + 1]]]

IsContentRequest(e) == e.kind = "content"

ContentRequests == SelectSeq(content_log, IsContentRequest)

ContentDone == content_pc = "done"

C8_AtMostOneRetry ==
    LET reqs == ContentRequests
    IN  /\ Len(reqs) <= 2
        /\ content_calls <= 2
        /\ Len(reqs) = 2 =>
              /\ reqs[1].branch = "main"
              /\ reqs[1].outcome = "http_404"
              /\ reqs[2].branch = "master"
        /\ (ContentDone /\ Len(reqs) = 1) =>
              ~(reqs[1].branch = "main" /\ reqs[1].outcome = "http_404")
        /\ (ContentDone /\ reqs /= <<>> /\ reqs[Len(reqs)].outcome /= "ok") =>
              content_result = None

LlmDone == llm_pc = "done"

\* C9: for a non-blank document of fewer than 75 words summarize_text_content
\* returns the text verbatim or a truncated form of it and makes no LLM call,
\* whether or not the LLM client is configured.
C9_ShortDocumentReturned ==
    (LlmDone /\ llm_input.words >= 1 /\ llm_input.words < ShortDocWords) =>
        /\ llm_calls = 0
        /\ llm_result.v.kind \in {"verbatim", "brief"}

IsPlan(result) == ~result.isNone /\ "include_components" \in DOMAIN result.v

\* the list the LLM answered, when it answered a JSON object with a list
AnsweredList ==
    IF llm_reply.kind = "json" /\ llm_reply.body.type = "dict"
       /\ ~llm_reply.body.include_components.isNone
       /\ llm_reply.body.include_components.v.is_list
    THEN Some(llm_reply.body.include_components.v.v)
    ELSE None

\* the positions of the known components in a list
KnownPositions(l) == {i \in DOMAIN l : l[i] \in Range(available_components)}

\* C10: a successful plan lists only the four fixed components: they are the
\* known entries of the LLM's list, in its order; unknown entries are dropped,
\* and the warning is printed exactly when one was.
C10_PlanWithinEnumeration ==
    (LlmDone /\ IsPlan(llm_result)) =>
        LET plan == llm_result.v.include_components
        IN  /\ Range(plan) \subseteq Range(available_components)
            /\ ~AnsweredList.isNone
            /\ LET given == AnsweredList.v
                   known == KnownPositions(given)
               IN  /\ Len(plan) = Cardinality(known)
                   /\ \A i \in known :
                         plan[Cardinality({j \in known : j <= i})] = given[i]
                   /\ llm_warned <=> (known /= DOMAIN given)

\* the LLM listed an unknown entry between two known ones
C10_Witness ==
    /\ LlmDone
    /\ AnsweredList = Some(<<"repository_structure_modal_ai", "bogus_component",
                             "repo_details_and_clone_command">>)
    /\ IsPlan(llm_result)
    /\ llm_result.v.include_components =
         <<"repository_structure_modal_ai", "repo_details_and_clone_command">>
    /\ llm_warned

\* the planner made its LLM call and did not return a plan
PlanFailedSoft == LlmDone /\ llm_calls = 1 /\ ~IsPlan(llm_result)

\* C11: when the LLM call throws, the answer is not JSON, or the JSON has no
\* include_components list, plan_onboarding_kit_components returns a value with
\* both an 'error' and a 'details' field, the JSON-decode failure under an error
\* kind of its own; it never raises.
C11_ErrorAndDetails ==
    PlanFailedSoft =>
        /\ ~llm_result.isNone
        /\ "raised" \notin DOMAIN llm_result
        /\ {"error", "details"} \subseteq DOMAIN llm_result.v
        /\ (llm_result.v.error = <<"JSON decode error">>) <=> (llm_reply.kind = "not_json")

\* what an operation of the LLM layer returns to its caller
ResultOf(op, cl, input, reply) ==
    CASE op = "rank" ->
           Some(GetSimpleIssueSuggestion(cl, input.issues_data, reply).result)
      [] op = "summarize" ->
           Some(SummarizeTextContent(cl, input, reply).result)
      [] op = "suggest" ->
           Some(SuggestRelevantCodeLocations(cl, input.issue_snippet,
                                             input.file_list, reply).result)
      [] op = "plan" ->
           PlanOnboardingKitComponents(cl, input, reply).result

\* the chat-completion call was made and raised
LlmCallRaised == LlmDone /\ llm_calls = 1 /\ llm_reply.kind = "raise"

\* C12: in each operation of the LLM layer, an error of one kind (connection,
\* rate limit, authentication, API status, unexpected) gives the caller a message
\* that an error of another kind does not give, and the error is returned, not
\* raised.  The two errors compared differ in their own text too, so a message
\* that only repeats str(e) counts as distinct.
C12_DistinctErrorMessages ==
    LlmCallRaised =>
        /\ "raised" \notin DOMAIN llm_result
        /\ \A e \in LlmErrors :
              (e.type /= llm_reply.e.type /\ e.text /= llm_reply.e.text) =>
                  ResultOf(llm_op, client, llm_input, [kind |-> "raise", e |-> e])
                      /= llm_result

(***************************************************************************)
(* Claims about kit generation                                             *)
(***************************************************************************)
\* generate_kit_from_plan, called directly, has returned
KitDone == kit_pc = "done" /\ ~handle_args.present

KitIsDocument == ~kit_result.isNone /\ kit_result.v.kind = "kit"

\* the place of each part in a kit
SectionRank(name) ==
    CASE name = "header" -> 1 [] name = "repo_details" -> 2 [] name = "guidelines" -> 3
      [] name = "structure" -> 4 [] name = "footer" -> 5

\* the components that ask for a part
ComponentsFor(name) ==
    CASE name = "repo_details" -> {"repo_details_and_clone_command"}
      [] name = "guidelines" -> {"contribution_guidelines_link",
                                 "contribution_guidelines_summary_ai"}
      [] name = "structure" -> {"repository_structure_modal_ai"}

SectionNames(parts) == [i \in DOMAIN parts |-> parts[i].section]

\* C13: the kit depends only on which components the plan contains, not on
\* their order or repetition: any plan with the same components gives the same
\* document, whose parts are the header, the repo details, the guidelines, the
\* repository structure and the closing remark in that order, each part that is
\* asked for exactly once.
C13_FixedSectionOrder ==
    (KitDone /\ KitIsDocument) =>
        LET plan  == kit_args.components_to_include
            names == SectionNames(kit_result.v.parts)
        IN  /\ \A other \in KitPlans :
                  Range(other) = Range(plan) =>
                      GenerateKitFromPlan(kit_args.issue_data, kit_args.language_searched,
                                          other, kit_answers, client) = kit_result.v
            /\ names[1] = "header"
            /\ names[Len(names)] = "footer"
            /\ \A i, j \in DOMAIN names :
                  i < j => SectionRank(names[i]) < SectionRank(names[j])
            /\ \A name \in {"repo_details", "guidelines", "structure"} :
                  (name \in Range(names)) <=> (ComponentsFor(name) \cap Range(plan) /= {})

\* the full plan given in reverse order: all five parts, in the fixed order
C13_Witness ==
    /\ KitDone
    /\ KitIsDocument
    /\ kit_args.components_to_include =
         <<"repository_structure_modal_ai", "contribution_guidelines_summary_ai",
           "contribution_guidelines_link", "repo_details_and_clone_command">>
    /\ SectionNames(kit_result.v.parts) =
         <<"header", "repo_details", "guidelines", "structure", "footer">>

\* the plan names none of the four components
NothingRecognized(components_to_include) ==
    Range(components_to_include) \cap Range(available_components) = {}

\* C14: for a plan without any recognized component, the empty one or one made
\* of unknown identifiers only, kit generation answers with a 'nothing to
\* generate' outcome, never with a kit of header and closing remark alone.
C14_NothingToGenerate ==
    (KitDone /\ kit_args.issue_data.present
     /\ NothingRecognized(kit_args.components_to_include)) =>
        /\ ~kit_result.isNone
        /\ kit_result.v.kind = "error"

\* the guidelines part of the kit returned, when it has one
GuidelinesParts ==
    {kit_result.v.parts[i] : i \in {j \in DOMAIN kit_result.v.parts :
                                       kit_result.v.parts[j].section = "guidelines"}}

LinkWithoutSummary(components_to_include) ==
    /\ Includes(components_to_include, "contribution_guidelines_link")
    /\ ~Includes(components_to_include, "contribution_guidelines_summary_ai")

\* C15: when the plan asks for the guidelines link and not for the AI summary,
\* the kit shows no summary text of any kind after the link: no AI summary, no
\* echo of a short document, no sentence about the state of the summary,
\* whatever the probe, the content fetch and the summarizer answered.
C15_LinkOnlyHasNoSummaryText ==
    (KitDone /\ KitIsDocument /\ LinkWithoutSummary(kit_args.components_to_include)) =>
        \A part \in GuidelinesParts : part.summary = NoSummary

StructureParts ==
    {kit_result.v.parts[i] : i \in {j \in DOMAIN kit_result.v.parts :
                                       kit_result.v.parts[j].section = "structure"}}

CallsNamed(name) == {i \in DOMAIN kit_calls : kit_calls[i].call = name}

\* the file-listing collaborator was asked and answered with an error
ListingFailed == ~kit_answers.modal.isNone /\ kit_answers.modal.v.status = "error"

\* C16: when the file-listing collaborator answers {status: 'error', message: X},
\* the kit still has its repository-structure part, the text of that part
\* contains X, and suggest_relevant_code_locations is not called; that call is
\* made only after a success answer with a non-empty file list.
C16_ListingErrorShown ==
    /\ (KitDone /\ KitIsDocument /\ ListingFailed) =>
          /\ Cardinality(StructureParts) = 1
          /\ \A part \in StructureParts :
                /\ part.listing.kind = "placeholder"
                /\ IsSubstring(kit_answers.modal.v.message, part.listing.text)
                /\ part.suggestions = NoSuggestions
          /\ CallsNamed("suggest_relevant_code_locations") = {}
    /\ \A i \in CallsNamed("suggest_relevant_code_locations") :
          /\ ~kit_answers.modal.isNone
          /\ kit_answers.modal.v.status = "success"
          /\ kit_answers.modal.v.files > 0
          /\ \E j \in CallsNamed("get_repo_file_listing_via_modal") : j < i

\* the listing failed with message X and the kit says so
C16_Witness ==
    /\ KitDone
    /\ KitIsDocument
    /\ ListingFailed
    /\ kit_answers.modal.v.message = <<"X">>
    /\ \E part \in StructureParts : IsSubstring(<<"X">>, part.listing.text)
    /\ CallsNamed("suggest_relevant_code_locations") = {}

(***************************************************************************)
(* Claims about find_and_suggest_issues                                    *)
(***************************************************************************)
FindDone == find_pc = "done"

\* the search returned issues and the handler showed them
IssuesShown ==
    /\ FindDone
    /\ ~find_result.isNone
    /\ "v" \in DOMAIN find_result
    /\ find_result.v.issues_markdown.kind = "issues"

RankingCalls == {i \in DOMAIN find_calls : find_calls[i].call = "get_simple_issue_suggestion"}

\* C17: when the search returns issues and the LLM API key is absent, every
\* returned issue, up to 5, is listed with its title under the ordinals 1, 2, ...,
\* the suggestion panel shows the 'API key not configured' message, and the
\* ranking is not called.
C17_NoKeyListsIssuesWithoutLlm ==
    (IssuesShown /\ ~OPENAI_API_KEY) =>
        LET returned == find_result.v.raw_issues_state.v
            entries  == find_result.v.issues_markdown.entries
        IN  /\ Len(entries) = (IF Len(returned) < MaxShown THEN Len(returned) ELSE MaxShown)
            /\ \A i \in DOMAIN entries :
                  entries[i].ordinal = i /\ entries[i].title = returned[i].title
            /\ find_result.v.llm_suggestion =
                 Some(PlainText("OpenAI API Key not configured. LLM suggestion skipped."))
            /\ RankingCalls = {}

\* six issues came back without a key: five are listed, the message is shown
C17_Witness ==
    /\ IssuesShown
    /\ ~OPENAI_API_KEY
    /\ Len(find_result.v.raw_issues_state.v) = MaxShown + 1
    /\ Len(find_result.v.issues_markdown.entries) = MaxShown
    /\ find_result.v.llm_suggestion.v.kind = "plain"

ClientNotInitialized ==
    Message("LLM client (OpenAI) not initialized. Check API Key configuration.")

\* the ranking was called and answered with its 'client not initialized' string
RankingRefused == IssuesShown /\ RankingCalls /= {} /\ ~client

\* C19: whenever get_simple_issue_suggestion returns its 'client not
\* initialized' string, find_and_suggest_issues shows it as a plain message and
\* never under the AI-suggestion heading.
C19_ClientMessageNotASuggestion ==
    RankingRefused =>
        /\ find_result.v.llm_suggestion.v.kind = "plain"
        /\ find_result.v.llm_suggestion.v /= AiSuggestion(ClientNotInitialized)

(***************************************************************************)
(* Claims about the generate-kit action                                    *)
(***************************************************************************)
HandleDone == kit_pc = "done" /\ handle_args.present

\* the planner's LLM answered with this list of components
PlannerAnswered(list) ==
    kit_answers.plan_reply = Some([kind |-> "json", body |-> PlanJson(AList(list))])

PlanCalls == {i \in DOMAIN kit_calls : kit_calls[i].call = "plan_onboarding_kit_components"}

\* C18: when the planner LLM answers ["repo_details_and_clone_command",
\* "bogus_component"], the generate-kit action returns a kit whose only part
\* between header and closing remark is the repo details, with nothing for the
\* guidelines, the repository structure or the unknown identifier, and the
\* planner's warning is logged.
C18_BogusComponentDropped ==
    (HandleDone /\ PlannerAnswered(<<"repo_details_and_clone_command", "bogus_component">>)) =>
        /\ ~handle_result.isNone
        /\ handle_result.v.kind = "kit"
        /\ handle_result.v.kit.kind = "kit"
        /\ SectionNames(handle_result.v.kit.parts) = <<"header", "repo_details", "footer">>
        /\ kit_args.components_to_include = <<"repo_details_and_clone_command">>
        /\ \A i \in PlanCalls : kit_calls[i].warned
        /\ \A i \in DOMAIN kit_calls :
              kit_calls[i].call \in {"plan_onboarding_kit_components",
                                     "get_repository_details"}

\* the planner answered the two entries and the kit of three parts came back
C18_Witness ==
    /\ HandleDone
    /\ PlannerAnswered(<<"repo_details_and_clone_command", "bogus_component">>)
    /\ handle_result.v.kind = "kit"
    /\ Len(handle_result.v.kit.parts) = 3
    /\ PlanCalls /= {}

\* C20: whatever each collaborator does (success, empty, error value, raised
\* exception), a user action returns its normal tuple of outputs, with a message
\* in place of what is missing; it never raises.  Stated here for
\* find_and_suggest_issues, whose collaborators are the search and the ranking.
C20_SearchActionNeverRaises ==
    FindDone =>
        /\ ~find_result.isNone
        /\ "raised" \notin DOMAIN find_result
        /\ find_result.v.issues_markdown.kind \in {"message", "issues"}

(***************************************************************************)
(* C21 (SpecKit): the requests of one kit generation                       *)
(***************************************************************************)
\* the repository-details requests of the generation, whoever made them
DetailsRequests == CallsNamed("get_repository_details")

\* C21: within one kit generation the repository-details (default-branch)
\* request is issued at most once, even when it fails; only the file-content
\* fetch is attempted again after failing.
C21_DetailsRequestedOnce ==
    KitDone => Cardinality(DetailsRequests) <= 1

(***************************************************************************)
(* C22 (SpecPage): two sessions                                            *)
(***************************************************************************)
\* what session s has: its components and states, and its handlers in flight
OfSession(s) == <<session[s], running[s]>>

\* C22: with two sessions whose search and generate-kit actions interleave in
\* any order, a step changes one session only, the one that clicked or whose
\* handler returned (the issue list, the searched language, the kit output and
\* the handlers in flight of the other stay as they are), and a generate-kit
\* click of a session hands the handler the issue list and the language stored
\* by that session's own latest search.
C22_SessionsIsolated ==
    [][\A s \in Sessions :
          /\ \A t \in Sessions \ {s} :
                OfSession(t)' /= OfSession(t) => OfSession(s)' = OfSession(s)
          /\ KitClick(s)
                => /\ running'[s].kit.v.current_issues_state
                          = running[s].last_search.raw_issues_state
                   /\ running'[s].kit.v.language_searched_state
                          = running[s].last_search.language_searched_state
      ]_vars

\* both sessions have searched, for different languages, and the first was
\* shown a kit for an issue of its own list
C22_Witness ==
    /\ \A s \in Sessions : ~session[s].raw_issues_state.isNone
                           /\ session[s].raw_issues_state.v /= <<>>
    /\ session[1].language_searched_state /= session[2].language_searched_state
    /\ ~session[1].kit_output.isNone
    /\ session[1].kit_output.v.kind = "kit"
    /\ session[2].kit_output.isNone

(***************************************************************************)
(* C23 (SpecKit): the order of the calls of the guidelines section         *)
(***************************************************************************)
SummaryWithoutLink(components_to_include) ==
    /\ Includes(components_to_include, "contribution_guidelines_summary_ai")
    /\ ~Includes(components_to_include, "contribution_guidelines_link")

\* the link was looked for and found, and the file fetched has content
LinkFoundAndContentFetched ==
    /\ ~kit_answers.found.isNone /\ ~kit_answers.found.v.isNone
    /\ ~kit_answers.content.isNone /\ ~kit_answers.content.v.isNone
    /\ TruthyDoc(kit_answers.content.v.v)

\* C23: in the contribution-guidelines section the summarizer is called only
\* after the guidelines link was resolved and the file content was fetched
\* non-empty, in that order; when the plan asks for the AI summary without the
\* link, the link is still resolved first and shown.
C23_SummaryAfterLinkAndContent ==
    /\ \A i \in CallsNamed("summarize_text_content") :
          /\ LinkFoundAndContentFetched
          /\ \E j \in CallsNamed("get_file_url_from_repo"),
                k \in CallsNamed("get_file_content") : j < k /\ k < i
    /\ (KitDone /\ KitIsDocument /\ SummaryWithoutLink(kit_args.components_to_include)) =>
          /\ Cardinality(GuidelinesParts) = 1
          /\ ~KitInfo.repo_full_name.isNone =>
                /\ CallsNamed("get_file_url_from_repo") /= {}
                /\ \A part \in GuidelinesParts : part.link = kit_answers.found.v
                /\ \A i \in CallsNamed("get_file_content") \cup
                            CallsNamed("summarize_text_content") :
                      \E j \in CallsNamed("get_file_url_from_repo") : j < i

\* a plan with the summary alone: the link was found and is shown, the content
\* was fetched and summarised by the LLM
C23_Witness ==
    /\ KitDone
    /\ KitIsDocument
    /\ kit_args.components_to_include = <<"contribution_guidelines_summary_ai">>
    /\ LinkFoundAndContentFetched
    /\ \E i \in CallsNamed("summarize_text_content") : kit_calls[i].llm_calls = 1
    /\ \E part \in GuidelinesParts :
          part.link = kit_answers.found.v /\ part.summary.kind = "key_takeaways"

(***************************************************************************)
(* C24 (SpecFind): the issues handed to the ranking                        *)
(***************************************************************************)
\* C24: the issues find_and_suggest_issues passes to the ranking call are the
\* first min(3, n) issues of the displayed list, in the same order, never more
\* than 3, so that 'Issue k' of the prompt is the issue displayed with ordinal k.
C24_RankedAreFirstDisplayed ==
    IssuesShown =>
        \A c \in RankingCalls :
            LET entries == find_result.v.issues_markdown.entries
                ranked  == PromptIssues(find_calls[c].issues_data)
                n       == Len(find_result.v.raw_issues_state.v)
            IN  /\ Len(ranked) = (IF n < 3 THEN n ELSE 3)
                /\ \A k \in DOMAIN ranked : ranked[k] = entries[k]

\* four issues came back: three of them were ranked, the first three shown
C24_Witness ==
    /\ IssuesShown
    /\ Len(find_result.v.raw_issues_state.v) = 4
    /\ \E c \in RankingCalls :
          /\ Len(find_calls[c].issues_data) = 3
          /\ find_calls[c].llm_calls = 1
          /\ PromptIssues(find_calls[c].issues_data)[2].title = "T2"

(***************************************************************************)
(* C25 (SpecPage): what a session shows after its searches                 *)
(***************************************************************************)
\* the session's stored issue list has issues
HasStoredIssues(s) ==
    ~session[s].raw_issues_state.isNone /\ session[s].raw_issues_state.v /= <<>>

\* "k. title" for each of the first five issues of a list
NumberedTitles(issues) ==
    [i \in 1..(IF Len(issues) < 5 THEN Len(issues) ELSE 5) |-> <<i, issues[i].title>>]

\* C25: after any sequence of search actions in a session, the kit controls
\* section and the generate-kit button are visible if and only if the session's
\* stored issue list is non-empty, and the issue picker's choices are then the
\* numbered titles of the first 5 stored issues, in order.
C25_ControlsFollowStoredIssues ==
    \A s \in Sessions :
        /\ session[s].controls_visible <=> HasStoredIssues(s)
        /\ session[s].button_visible <=> HasStoredIssues(s)
        /\ HasStoredIssues(s) =>
              session[s].dropdown.choices = NumberedTitles(session[s].raw_issues_state.v)

\* after two clicks: a search of one session stored six issues and shows five
\* choices with the controls, a search of the other found nothing and shows
\* its message without them
C25_Witness ==
    \E s \in Sessions, t \in Sessions :
        /\ s /= t
        /\ Len(session[s].dropdown.choices) = 5
        /\ Len(session[s].raw_issues_state.v) = 6
        /\ session[s].controls_visible /\ session[s].button_visible
        /\ clicks >= 2
        /\ ~session[t].issues_output.isNone
        /\ ~HasStoredIssues(t)
        /\ ~session[t].controls_visible /\ ~session[t].button_visible

(***************************************************************************)
(* C26 (SpecPage): a search without issues clears the stored list          *)
(***************************************************************************)
\* the latest search of session s that returned had no issues to store: no
\* language, a failed request, or zero issues
LatestSearchStoredNothing(s) == running[s].last_search.raw_issues_state.isNone

PleaseSelect == HandleMessage(<<"Please select an issue first...">>)

\* a value of the issue state that holds no issue: None or the empty list
NoIssues(state) == state.isNone \/ state.v = <<>>

HandleSelected ==
    /\ handle_args.present
    /\ kit_pc /= "handle"
    /\ ~handle_args.selected_issue_title_with_num.isNone
    /\ handle_args.current_issues_state /= <<>>

\* the entry 'k. title' is the one the picker shows for the k-th stored issue
EntryOfStoredIssue ==
    LET entry == handle_args.selected_issue_title_with_num.v
    IN  /\ entry[1] \in DOMAIN handle_args.current_issues_state
        /\ handle_args.current_issues_state[entry[1]].title = entry[2]

\* C27: for every stored list, with repeated titles or not, the picker entry
\* 'k. title' resolves to the k-th stored issue: the planner is called for that
\* issue and the kit is generated for it; an entry that matches no stored issue
\* gives an error message, with no planner call.
C27_EntryResolvesToItsIssue ==
    HandleSelected =>
        IF EntryOfStoredIssue
        THEN LET k == handle_args.selected_issue_title_with_num.v[1]
             IN  /\ Cardinality(PlanCalls) = 1
                 /\ \A i \in PlanCalls :
                       kit_calls[i].issue_data = handle_args.current_issues_state[k]
                 /\ kit_args /= NoKitArgs =>
                       kit_args.issue_data = handle_args.current_issues_state[k]
        ELSE /\ PlanCalls = {}
             /\ kit_calls = <<>>
             /\ handle_result =
                  Some(HandleMessage(<<"Error: Could not find data for issue">>))

\* two stored issues with the same title: the second entry gave the kit of the
\* second issue, the one without a repository URL
C27_Witness ==
    /\ HandleDone
    /\ handle_args.selected_issue_title_with_num = Some(<<2, "T1">>)
    /\ Len(handle_args.current_issues_state) = 2
    /\ handle_args.current_issues_state[1].title = "T1"
    /\ handle_args.current_issues_state[2] = StoredIssue("T1", <<"#">>)
    /\ ~handle_result.isNone
    /\ handle_result.v.kind = "kit"
    /\ kit_args.issue_data = StoredIssue("T1", <<"#">>)

(***************************************************************************)
(* C28 (SpecKit): the path of the content fetch                            *)
(***************************************************************************)
\* the link found is the html_url of candidate path p on some branch
LinkFoundAt(p) ==
    /\ ~kit_answers.found.isNone
    /\ \E b \in {"main", "master", "dev"} : kit_answers.found.v = Some(BlobUrl(b, p))

\* C28: when the guidelines link was found at candidate path p, any of the six,
\* the content fetched for the AI summary is requested at that same path p.
C28_ContentFetchedAtFoundPath ==
    \A p \in Range(contributing_paths_to_check) :
        LinkFoundAt(p) =>
            \A i \in CallsNamed("get_file_content") : kit_calls[i].file_path = p

(***************************************************************************)
(* C29 (SpecFind): the topics handed to the search                         *)
(***************************************************************************)
SearchCalls == {i \in DOMAIN find_calls : find_calls[i].call = "fetch_beginner_issues"}

\* the entries the user gave: the curated selections and the custom entries
\* between commas, each trimmed and lower-cased, the blank ones left out
TopicsGivenBy(curated, custom) ==
    LET given == (IF curated.isNone THEN {} ELSE Range(curated.v))
                 \cup (IF custom.isNone THEN {}
                       ELSE Range(SplitAt(custom.v, ",", <<>>)))
    IN  {Lower(Strip(t)) : t \in {u \in given : Strip(u) /= <<>>}}

\* the same selections in every order, and given twice
CuratedVariants(curated) ==
    IF curated.isNone THEN {None}
    ELSE {Some(r) : r \in Reorderings(curated.v)} \cup {Some(curated.v \o curated.v)}

\* the same custom entries in every order, and given twice
CustomVariants(custom) ==
    IF custom.isNone THEN {None}
    ELSE {Some(Join(<<",">>, r)) : r \in Reorderings(SplitAt(custom.v, ",", <<>>))}
         \cup {Some(custom.v \o <<",">> \o custom.v)}

\* C29 as stated: the topic list passed to the search, a list, is the union of
\* the curated selections and the custom entries after trimming and
\* lower-casing, without blank or equal entries, None when no non-blank topic
\* was given, and it is independent of the order and repetition of the inputs:
\* it is the same list in whatever order the entries came.
C29_ListIndependentOfInputOrder ==
    \A c \in SearchCalls :
        LET entries == TopicsGivenBy(find_args.selected_curated_topics,
                                     find_args.custom_topics_str)
        IN  IF entries = {} THEN find_calls[c].topics = None
            ELSE \A order \in ListsOf(entries) : find_calls[c].topics = Some(order)

\* C29, amended: the entries of the topic list passed to the search are the
\* union of the curated selections and the custom entries after trimming and
\* lower-casing; the list has no blank entry and no two equal entries, its set
\* of entries is the same for every order and repetition of the inputs, and
\* it is None when no non-blank topic was given.  The order of the list is
\* not determined by the inputs.
C29_TopicsAreTheUnion ==
    \A c \in SearchCalls :
        LET passed  == find_calls[c].topics
            entries == IF passed.isNone THEN {} ELSE Range(passed.v)
        IN  /\ ~passed.isNone =>
                  /\ passed.v /= <<>>
                  /\ Len(passed.v) = Cardinality(entries)
            /\ \A e \in entries : Strip(e) /= <<>> /\ e = Lower(Strip(e))
            /\ \A cv \in CuratedVariants(find_args.selected_curated_topics),
                  sv \in CustomVariants(find_args.custom_topics_str) :
                  TopicsGivenBy(cv, sv) = entries

\* curated 'A ', ' ', 'b' and custom 'a, B, ': the search was given a and b, once each
C29_Witness ==
    /\ FindDone
    /\ find_args.selected_curated_topics = Some(<< <<"A", " ">>, <<" ">>, <<"b">> >>)
    /\ find_args.custom_topics_str = Some(<<"a", ",", " ", "B", ",", " ">>)
    /\ \E c \in SearchCalls :
          /\ ~find_calls[c].topics.isNone
          /\ Len(find_calls[c].topics.v) = 2
          /\ Range(find_calls[c].topics.v) = {<<"a">>, <<"b">>}
          /\ find_calls[c].requests /= <<>>

(***************************************************************************)
(* C30 (SpecHandle): the planner without a client                          *)
(***************************************************************************)
PlannerGaveNone ==
    /\ HandleDone
    /\ ~client
    /\ \E c \in DOMAIN kit_calls :
          /\ kit_calls[c].call = "plan_onboarding_kit_components"
          /\ kit_calls[c].llm_calls = 0

\* C30: when plan_onboarding_kit_components returns None because the LLM
\* client is not configured, handle_kit_generation returns a message that
\* starts with 'Error planning kit' and carries the detail 'Planner None',
\* with the checklist hidden.
C30_PlanningErrorForMissingClient ==
    PlannerGaveNone =>
        /\ ~handle_result.isNone
        /\ handle_result.v.kind = "message"
        /\ handle_result.v.text[1] = "Error planning kit: "
        /\ "Planner None" \in Range(handle_result.v.text)
        /\ ~handle_result.v.checklist_visible

====
